---- MODULE Spec2Model ----
(***************************************************************************)
(* A model of promptu's service provisioner (McpInstaller), retrieval     *)
(* engine (PromptFetcher), remote prompt session (McpClient), address     *)
(* parser (promptParser) and command handler (executePromptLogic).  Every  *)
(* asynchronous method is cut at its awaits: one action per stretch of     *)
(* code between two suspension points.  The pure functions are operators,  *)
(* applied by one action each to inputs that the initial state draws.      *)
(***************************************************************************)
EXTENDS Integers, Sequences, FiniteSets, TLC

\* ------------------------------------------------------------------ bounds

\* Longest descriptor list handed to installServers.
MaxServers == 2

\* Most dot-separated segments of a version handed to isVersionSufficient.
MaxSegments == 4

\* Most slash-separated parts of the plain paths handed to parsePrompt.
MaxPathParts == 5

\* The most chunks an external process writes to its error stream.
MaxChunks == 2

\* ------------------------------------------------------------ JS helpers

\* An absent (undefined) or empty string field: both are falsy in JavaScript.
Absent == ""

\* An absent or empty version string, as a sequence of characters.
NoVersion == <<>>

Truthy(s) == s # Absent

Digits == {"0", "1", "2", "3", "4", "5", "6", "7", "8", "9"}

DigitVal(c) ==
    CASE c = "0" -> 0 [] c = "1" -> 1 [] c = "2" -> 2 [] c = "3" -> 3
      [] c = "4" -> 4 [] c = "5" -> 5 [] c = "6" -> 6 [] c = "7" -> 7
      [] c = "8" -> 8 [] c = "9" -> 9

\* s.includes(c), for a one-character c.
Includes(s, c) == \E i \in 1..Len(s) : s[i] = c

\* s.split(c): the list of the pieces of s between the occurrences of c.
RECURSIVE SplitFrom(_, _, _, _)
SplitFrom(s, c, i, cur) ==
    IF i > Len(s) THEN <<cur>>
    ELSE IF s[i] = c THEN <<cur>> \o SplitFrom(s, c, i + 1, <<>>)
    ELSE SplitFrom(s, c, i + 1, Append(cur, s[i]))

Split(s, c) == SplitFrom(s, c, 1, <<>>)

\* parts.join(sep)
RECURSIVE Join(_, _)
Join(parts, sep) ==
    IF Len(parts) = 0 THEN <<>>
    ELSE IF Len(parts) = 1 THEN parts[1]
    ELSE parts[1] \o sep \o Join(Tail(parts), sep)

\* s.startsWith(p) and s.endsWith(p)
StartsWith(s, p) == Len(s) >= Len(p) /\ SubSeq(s, 1, Len(p)) = p

EndsWith(s, p) ==
    Len(s) >= Len(p) /\ SubSeq(s, Len(s) - Len(p) + 1, Len(s)) = p

\* s.split(/[...]/): the pieces of s between the characters of the class cs.
RECURSIVE SplitAnyFrom(_, _, _, _)
SplitAnyFrom(s, cs, i, cur) ==
    IF i > Len(s) THEN <<cur>>
    ELSE IF s[i] \in cs THEN <<cur>> \o SplitAnyFrom(s, cs, i + 1, <<>>)
    ELSE SplitAnyFrom(s, cs, i + 1, Append(cur, s[i]))

SplitAny(s, cs) == SplitAnyFrom(s, cs, 1, <<>>)

\* s.indexOf(p) counted from 1: where p first occurs in s, 0 when nowhere.
IndexOf(s, p) ==
    LET at == { i \in 1..(Len(s) - Len(p) + 1) :
                  SubSeq(s, i, i + Len(p) - 1) = p }
    IN  IF at = {} THEN 0 ELSE CHOOSE i \in at : \A k \in at : i <= k

\* s.replace(p, '') for a string p: the first occurrence of p is removed.
RemoveFirst(s, p) ==
    LET i == IndexOf(s, p)
    IN  IF i = 0 THEN s
        ELSE SubSeq(s, 1, i - 1) \o SubSeq(s, i + Len(p), Len(s))

\* s.replace(/\.[^.]*$/, ''): the last '.' and what follows it are removed.
RemoveLastExtension(s) ==
    LET dots == { i \in 1..Len(s) : s[i] = "." }
    IN  IF dots = {} THEN s
        ELSE SubSeq(s, 1, (CHOOSE i \in dots : \A k \in dots : i >= k) - 1)

\* [a-zA-Z]
AsciiLetters ==
    { "a", "b", "c", "d", "e", "f", "g", "h", "i", "j", "k", "l", "m",
      "n", "o", "p", "q", "r", "s", "t", "u", "v", "w", "x", "y", "z",
      "A", "B", "C", "D", "E", "F", "G", "H", "I", "J", "K", "L", "M",
      "N", "O", "P", "Q", "R", "S", "T", "U", "V", "W", "X", "Y", "Z" }

\* parseInt(part, 10): the value of the longest prefix of digits; NaN when
\* the part does not start with a digit.
RECURSIVE DigitsValue(_, _, _)
DigitsValue(part, i, acc) ==
    IF i > Len(part) \/ part[i] \notin Digits THEN acc
    ELSE DigitsValue(part, i + 1, 10 * acc + DigitVal(part[i]))

ParseInt(part) ==
    IF Len(part) = 0 \/ part[1] \notin Digits
    THEN [nan |-> TRUE, val |-> 0]
    ELSE [nan |-> FALSE, val |-> DigitsValue(part, 1, 0)]

\* part => { const num = parseInt(part, 10); return isNaN(num) ? 0 : num; }
PartToNumber(part) ==
    LET num == ParseInt(part) IN IF num.nan THEN 0 ELSE num.val

MapParts(parts) == [i \in 1..Len(parts) |-> PartToNumber(parts[i])]

\* while (parts.length < maxLength) parts.push(0)
PadTo(parts, maxLength) ==
    [i \in 1..maxLength |-> IF i <= Len(parts) THEN parts[i] ELSE 0]

Max(a, b) == IF a >= b THEN a ELSE b

\* A loop that lets the last differing part decide instead of the first.
RECURSIVE CompareParts_LastDecides(_, _, _)
CompareParts_LastDecides(installedParts, requiredParts, i) ==
    IF i > Len(installedParts) THEN "undecided"
    ELSE LET later == CompareParts_LastDecides(installedParts,
                                               requiredParts, i + 1)
         IN  IF later # "undecided" THEN later
             ELSE IF installedParts[i] > requiredParts[i] THEN "higher"
             ELSE IF installedParts[i] < requiredParts[i] THEN "lower"
             ELSE "undecided"

\* The loop over the padded parts: "undecided" when every part is equal.
RECURSIVE CompareParts(_, _, _)
CompareParts(installedParts, requiredParts, i) ==
    IF i > Len(installedParts) THEN "undecided"
    ELSE IF installedParts[i] > requiredParts[i] THEN "higher"
    ELSE IF installedParts[i] < requiredParts[i] THEN "lower"
    ELSE CompareParts(installedParts, requiredParts, i + 1)

\* installed.split('-')[0].split('+')[0]
CleanVersion(v) == Split(Split(v, "-")[1], "+")[1]

\* A comparison that stops at the numeric parts.
isVersionSufficient_CoreOnly(installed, required) ==
    LET installedParts == MapParts(Split(CleanVersion(installed), "."))
        requiredParts  == MapParts(Split(CleanVersion(required), "."))
        maxLength      == Max(Len(installedParts), Len(requiredParts))
    IN  CompareParts(PadTo(installedParts, maxLength),
                     PadTo(requiredParts, maxLength), 1) # "lower"

isVersionSufficient(installed, required) ==
    LET cleanInstalled == CleanVersion(installed)
        cleanRequired  == CleanVersion(required)
        installedParts == MapParts(Split(cleanInstalled, "."))
        requiredParts  == MapParts(Split(cleanRequired, "."))
        maxLength      == Max(Len(installedParts), Len(requiredParts))
        core == CompareParts(PadTo(installedParts, maxLength),
                             PadTo(requiredParts, maxLength), 1)
        installedHasPrerelease == Includes(installed, "-")
        requiredHasPrerelease  == Includes(required, "-")
    IN  IF core = "higher" THEN TRUE
        ELSE IF core = "lower" THEN FALSE
        ELSE IF ~installedHasPrerelease /\ requiredHasPrerelease THEN TRUE
        ELSE IF installedHasPrerelease /\ ~requiredHasPrerelease THEN FALSE
        ELSE TRUE

\* ------------------------------------------------- service provisioner

\* The ids of the provisioning batches (calls of installServers) of a run.
BatchIds == {"b1", "b2"}

\* Descriptor names.  "toString" stands for the names that every JavaScript
\* object inherits from Object.prototype (constructor, toString, ...).
Names == {"srvA", "srvB", "toString"}

ProtoKeys == {"toString"}

\* McpServerConfig: the two transports (stdio with a command, http with a
\* url), with or without a NuGet package, with or without a version.
RequiredVersions == {NoVersion, <<"1", ".", "2">>}

Transports ==
    { [type |-> "stdio", command |-> "cmd", url |-> Absent],
      [type |-> "http", command |-> Absent, url |-> "url"] }

AllDescriptors ==
    { [name |-> n, type |-> t.type, command |-> t.command, url |-> t.url,
       nugetPackage |-> p.pkg, version |-> p.ver] :
        n \in Names,
        t \in Transports,
        p \in { [pkg |-> Absent, ver |-> NoVersion] }
              \cup { [pkg |-> "pkg", ver |-> v] : v \in RequiredVersions } }

\* The descriptors of the runs: an inherited name with one transport only.
Descriptors ==
    { d \in AllDescriptors : d.name \notin ProtoKeys \/ d.type = "stdio" }

\* The sequences over S of length at most n.
SeqsUpTo(S, n) == UNION { [1..k -> S] : k \in 0..n }

\* What `dotnet tool list` may report: nothing, or an installed version.
QueryResults ==
    { NoVersion,
      <<"1", ".", "1">>,
      <<"1", ".", "2", ".", "0">>,
      <<"1", ".", "2", "-", "a">> }

\* How a spawned process may end: exit code 0, a non-zero exit code, killed
\* by a signal (close with a null code), or failing to start ('error').
ProcOutcomes == {"exit0", "exit1", "signal", "spawnError"}

EmptyMap == [n \in {} |-> Absent]

\* The default registry, { servers: {}, inputs: [] }.
EmptyConfig == [servers |-> EmptyMap, inputs |-> <<>>]

\* The registry file does not exist.
NoFile == [missing |-> TRUE]

StdioEntry == [type |-> "stdio", command |-> "cmd", url |-> Absent]

InitialFiles ==
    { NoFile,
      [servers |-> ("srvA" :> StdioEntry), inputs |-> <<>>] }

VARIABLES
    mcpFile,          \* the persisted registry file (mcp.json), or NoFile
    active,           \* the batches of this run
    servers,          \* servers[b]: the descriptor list of batch b
    ipc,              \* ipc[b]: where installServers of batch b stands
    idx,              \* idx[b]: the position of the for-loop (from 1)
    config,           \* config[b]: the in-memory registry
    needsConfigWrite, \* needsConfigWrite[b]
    iresult,          \* iresult[b]: "pending", "true", "false" or "throws"
    fileAtStart,      \* fileAtStart[b]: the file when batch b started
    ilog              \* ilog[b]: what batch b did, in order

ivars == <<mcpFile, active, servers, ipc, idx, config, needsConfigWrite,
           iresult, fileAtStart, ilog>>

\* The state of the retrieval engine (its operations follow the provisioner's).
VARIABLES
    now,            \* Date.now()
    factive,        \* the retrievals of this run
    prompt,         \* prompt[r]: the ParsedPrompt of retrieval r
    fpc,            \* fpc[r]: where fetchPrompt of retrieval r stands
    headers,        \* headers[r]: the headers of the tier-1 GET
    content,        \* content[r]: the body waiting to be stored
    tempDir,        \* tempDir[r]: the clone directory, once named
    fresult,        \* fresult[r]: "pending", "ok" or "throws"
    ferror,         \* ferror[r]: the error fetchPrompt threw
    caught,         \* caught[r]: the error the tier-1 catch block caught
    flog,           \* flog[r]: what retrieval r did, in order
    storage,        \* the files of the storage directory: name -> content
    locations,      \* the directories set to true in chat.promptFilesLocations
    notifications,  \* how often the "folder created" notification was shown
    tmpDirs,        \* the temporary directories that exist: dir -> file or Absent
    localFile       \* the content of the local source file, or NoContent

\* What is kept of the retrievals that came before the running ones.
VARIABLES
    retrievals,     \* how many retrievals have been started
    last            \* last[name]: the kind of address and the content of
                    \* the latest successful retrieval under that name

svars == <<retrievals, last>>

fvars == <<now, factive, prompt, fpc, headers, content, tempDir, fresult,
           ferror, caught, flog, storage, locations, notifications, tmpDirs,
           localFile, svars>>

\* The state of one McpClient.getPrompt call (its operations follow the
\* retrieval engine's).
VARIABLES
    mcpPromptName,  \* the argument mcpPromptName, as its characters
    input,          \* the argument input, as its JSON tokens, or Absent
    mcpServers,     \* the argument mcpServers, or NoServers for undefined
    cpc,            \* where getPrompt stands
    serverConfig,   \* the descriptor found for the named service
    promptArgs,     \* the argument object sent with the render request
    transport,      \* the transport createClient made, or NoTransport
    pending,        \* the outcome of the try block, kept while finally runs
    cresult,        \* "pending", "returns" or "throws"
    cvalue,         \* the text returned or the error thrown
    clog            \* what the call did, in order

cvars == <<mcpPromptName, input, mcpServers, cpc, serverConfig, promptArgs,
           transport, pending, cresult, cvalue, clog>>

\* The version comparison and the address parser are pure functions: their
\* state is the input of a call and, once the call has returned, its result.
VARIABLES
    verInstalled,   \* isVersionSufficient: the installed version
    verRequired,    \* isVersionSufficient: the required version
    compared,           \* TRUE once isVersionSufficient has returned
    sufficient,         \* its result
    address,            \* the address handed to the parser's functions
    parseResult,      \* what parsePrompt(address) returned or threw
    promptName,         \* what getPromptName(address) returned
    withExtension       \* what addDefaultExtension returned, applied to the
                        \* address and then to its own result

pvars == <<verInstalled, verRequired, compared, sufficient,
           address, parseResult, promptName, withExtension>>

\* The command handler executePromptLogic.
VARIABLES
    epc,                \* the await at which the handler stands
    request,            \* its arguments: prompt, mcp and workspace
    handled,            \* its locals: parsedPrompt and mcpServers.length
    efault,             \* the error its catch block caught, if any
    elog                \* ghost: the calls it has made, in order

evars == <<epc, request, handled, efault, elog>>

\* One external process and the promise that awaits it.
VARIABLES
    spawned,            \* the spawn call: command, subcommand, timeout option
    childState,         \* "none", "running", or how the process ended
    elapsed,            \* the time since the spawn, in units of 30 seconds
    stderr,             \* the chunks the 'data' handler has collected
    settled             \* the promise: pending, or how it was settled

xvars == <<spawned, childState, elapsed, stderr, settled>>

\* McpClient.listPrompts runs on the state of the remote prompt session and
\* adds the promise of the close it calls.
VARIABLES
    closing             \* "none", "inFlight", or how the close ended

lvars == <<closing>>

\* One CopilotExecutor.executeCopilotChatCommand call.
VARIABLES
    chatCommand,        \* this.chatCommand
    chatSetting,        \* the setting promptu.copilotChatCommand
    configured,         \* ghost: this.chatCommand when the call started
    kcontent,           \* the argument content
    kpc,                \* the await at which the call stands
    knext,              \* the position of the fallback loop (from 1)
    kresult,            \* "pending", "returns" or "throws"
    klog                \* ghost: the chat commands tried, with their outcome

kvars == <<chatCommand, chatSetting, configured, kcontent, kpc, knext,
           kresult, klog>>

\* The operations that are checked on their own.
ovars == <<xvars, lvars, kvars>>

vars == <<ivars, fvars, cvars, pvars, evars, ovars>>

\* A log entry: what was done, for which position of the list, and what
\* the outside world answered (the reported version, the process outcome).
EventX(e, i, x) == [ev |-> e, i |-> i, x |-> x]

Event(e, i) == EventX(e, i, Absent)

\* server.name in config.servers: own and inherited property names.
HasServer(cfg, name) == name \in DOMAIN cfg.servers \/ name \in ProtoKeys

\* The entry addServerToConfig stores: the type, and each of command and url
\* that is set (args and env are copied the same way and left out here).
ServerEntry(server) ==
    [type |-> server.type, command |-> server.command, url |-> server.url]

addServerToConfig(cfg, server) ==
    [cfg EXCEPT !.servers =
        [n \in (DOMAIN cfg.servers) \cup {server.name} |->
            IF n = server.name THEN ServerEntry(server) ELSE cfg.servers[n]]]

\* readMcpConfig() || { servers: {}, inputs: [] }
readMcpConfig(file) == IF file = NoFile THEN EmptyConfig ELSE file

\* A faulty variant of DotnetExitCode: the exit code is dropped.
DotnetExitCode_Dropped(outcome) == 0

\* executeDotnetCommand: exitCode || 0 on 'close', 1 on 'error'.
DotnetExitCode(outcome) ==
    CASE outcome = "exit0" -> 0
      [] outcome = "exit1" -> 1
      [] outcome = "signal" -> 0
      [] outcome = "spawnError" -> 1

\* A faulty variant of AlreadySufficient: any installed version skips.
AlreadySufficient_AnyVersion(installedVersion, required) ==
    installedVersion # NoVersion

\* installedVersion && this.isVersionSufficient(installedVersion, server.version)
AlreadySufficient(installedVersion, required) ==
    /\ installedVersion # NoVersion
    /\ isVersionSufficient(installedVersion, required)

\* A faulty variant of NeedsWrite: the flag follows the last result only.
NeedsWrite_LastOnly(flag, result) == result.configModified

\* if (result.configModified) { needsConfigWrite = true; }
NeedsWrite(flag, result) == flag \/ result.configModified

\* The InstallResult values of installNuGetForServer and installServerConfig.
ResultSkipped == [cancelled |-> FALSE, configModified |-> FALSE]

\* A faulty variant of ResultCancelled: a decline is reported as a skip.
ResultCancelled_AsSkipped == [cancelled |-> FALSE, configModified |-> FALSE]

ResultCancelled == [cancelled |-> TRUE, configModified |-> FALSE]

\* A faulty variant of ResultInstalled: the change is not reported.
ResultInstalled_Unmodified == ResultSkipped

ResultInstalled == [cancelled |-> FALSE, configModified |-> TRUE]

\* The body of the for-loop of installServers once installNuGetForServer or
\* installServerConfig has returned `result`, having left the in-memory
\* registry as `cfg` and done `events`: a cancelled result returns false at
\* once, any other result goes on to the next descriptor.
AfterResult(b, result, cfg, events) ==
    /\ config' = [config EXCEPT ![b] = cfg]
    /\ ilog' = [ilog EXCEPT ![b] = @ \o events]
    /\ IF result.cancelled
       THEN /\ iresult' = [iresult EXCEPT ![b] = "false"]
            /\ ipc' = [ipc EXCEPT ![b] = "done"]
            /\ UNCHANGED <<idx, needsConfigWrite>>
       ELSE /\ needsConfigWrite' =
                [needsConfigWrite EXCEPT ![b] = NeedsWrite(@, result)]
            /\ idx' = [idx EXCEPT ![b] = @ + 1]
            /\ ipc' = [ipc EXCEPT ![b] = "loop"]
            /\ UNCHANGED iresult

\* An error thrown out of installServers.
Throws(b, events) ==
    /\ iresult' = [iresult EXCEPT ![b] = "throws"]
    /\ ipc' = [ipc EXCEPT ![b] = "done"]
    /\ ilog' = [ilog EXCEPT ![b] = @ \o events]
    /\ UNCHANGED <<idx, needsConfigWrite, config>>

\* Moving on inside one descriptor, to the await at `pc`.
Goto(b, pc, events) ==
    /\ ipc' = [ipc EXCEPT ![b] = pc]
    /\ ilog' = [ilog EXCEPT ![b] = @ \o events]
    /\ UNCHANGED <<idx, needsConfigWrite, config, iresult>>

\* installServers up to the end of `await this.readMcpConfig()`: a missing
\* file gives the default registry, an unreadable one throws.
ReadMcpConfig(b) ==
    /\ ipc[b] = "start"
    /\ fileAtStart' = [fileAtStart EXCEPT ![b] = mcpFile]
    /\ \E readable \in BOOLEAN :
        IF readable
        THEN /\ config' = [config EXCEPT ![b] = readMcpConfig(mcpFile)]
             /\ ipc' = [ipc EXCEPT ![b] = "loop"]
             /\ UNCHANGED <<idx, needsConfigWrite, iresult, ilog>>
        ELSE Throws(b, <<Event("readFailed", 0)>>)
    /\ UNCHANGED <<mcpFile, active, servers>>
    /\ UNCHANGED <<fvars, cvars, pvars, evars, ovars>>

\* The head of the for-loop and the synchronous start of the descriptor's
\* installer, up to its first await; after the last descriptor, the choice
\* between writing the registry and returning true.
NextServer(b) ==
    /\ ipc[b] = "loop"
    /\ IF idx[b] > Len(servers[b])
       THEN IF needsConfigWrite[b]
            THEN Goto(b, "write", <<>>)
            ELSE /\ iresult' = [iresult EXCEPT ![b] = "true"]
                 /\ ipc' = [ipc EXCEPT ![b] = "done"]
                 /\ UNCHANGED <<idx, needsConfigWrite, config, ilog>>
       ELSE LET server == servers[b][idx[b]] IN
            IF Truthy(server.nugetPackage)
            THEN IF server.version # NoVersion
                 THEN Goto(b, "query", <<>>)
                 ELSE Goto(b, "confirmNuGet", <<>>)
            ELSE IF HasServer(config[b], server.name)
                 THEN AfterResult(b, ResultSkipped, config[b],
                                  <<Event("skip", idx[b])>>)
                 ELSE Goto(b, "confirmConfig", <<>>)
    /\ UNCHANGED <<mcpFile, active, servers, fileAtStart>>
    /\ UNCHANGED <<fvars, cvars, pvars, evars, ovars>>

\* installNuGetForServer, `await this.getNuGetPackageVersion(...)`: the
\* descriptor is skipped when the reported version is sufficient.
GetNuGetPackageVersion(b) ==
    /\ ipc[b] = "query"
    /\ LET server == servers[b][idx[b]] IN
       \E installedVersion \in QueryResults :
          IF AlreadySufficient(installedVersion, server.version)
          THEN AfterResult(b, ResultSkipped, config[b],
                           <<EventX("query", idx[b], installedVersion),
                             Event("skip", idx[b])>>)
          ELSE Goto(b, "confirmNuGet",
                    <<EventX("query", idx[b], installedVersion)>>)
    /\ UNCHANGED <<mcpFile, active, servers, fileAtStart>>
    /\ UNCHANGED <<fvars, cvars, pvars, evars, ovars>>

\* installNuGetForServer, `await showMcpInstallationConfirmation(server)`.
ConfirmNuGet(b) ==
    /\ ipc[b] = "confirmNuGet"
    /\ \E shouldInstall \in BOOLEAN :
          IF ~shouldInstall
          THEN AfterResult(b, ResultCancelled, config[b],
                           <<Event("confirm", idx[b]), Event("decline", idx[b])>>)
          ELSE Goto(b, "install", <<Event("confirm", idx[b])>>)
    /\ UNCHANGED <<mcpFile, active, servers, fileAtStart>>
    /\ UNCHANGED <<fvars, cvars, pvars, evars, ovars>>

\* installNuGetForServer, `await this.installNuGetGlobalTool(server)` and
\* what follows: a non-zero exit code throws, otherwise the descriptor is
\* recorded in memory.
InstallNuGetGlobalTool(b) ==
    /\ ipc[b] = "install"
    /\ LET server == servers[b][idx[b]] IN
       \E outcome \in ProcOutcomes :
          IF DotnetExitCode(outcome) # 0
          THEN Throws(b, <<EventX("install", idx[b], outcome)>>)
          ELSE AfterResult(b, ResultInstalled,
                           addServerToConfig(config[b], server),
                           <<EventX("install", idx[b], outcome),
                             Event("record", idx[b])>>)
    /\ UNCHANGED <<mcpFile, active, servers, fileAtStart>>
    /\ UNCHANGED <<fvars, cvars, pvars, evars, ovars>>

\* installServerConfig, `await showMcpInstallationConfirmation(server)` and
\* what follows.
ConfirmServerConfig(b) ==
    /\ ipc[b] = "confirmConfig"
    /\ LET server == servers[b][idx[b]] IN
       \E shouldInstall \in BOOLEAN :
          IF ~shouldInstall
          THEN AfterResult(b, ResultCancelled, config[b],
                           <<Event("confirm", idx[b]), Event("decline", idx[b])>>)
          ELSE AfterResult(b, ResultInstalled,
                           addServerToConfig(config[b], server),
                           <<Event("confirm", idx[b]), Event("record", idx[b])>>)
    /\ UNCHANGED <<mcpFile, active, servers, fileAtStart>>
    /\ UNCHANGED <<fvars, cvars, pvars, evars, ovars>>

\* installServers, `await this.writeMcpConfig(config)` and `return true`; a
\* failing write throws.
WriteMcpConfig(b) ==
    /\ ipc[b] = "write"
    /\ \E written \in BOOLEAN :
          IF written
          THEN /\ mcpFile' = config[b]
               /\ iresult' = [iresult EXCEPT ![b] = "true"]
               /\ ipc' = [ipc EXCEPT ![b] = "done"]
               /\ ilog' = [ilog EXCEPT ![b] = Append(@, Event("write", idx[b]))]
               /\ UNCHANGED <<idx, needsConfigWrite, config>>
          ELSE /\ Throws(b, <<Event("writeFailed", idx[b])>>)
               /\ UNCHANGED mcpFile
    /\ UNCHANGED <<active, servers, fileAtStart>>
    /\ UNCHANGED <<fvars, cvars, pvars, evars, ovars>>

\* ------------------------------------------------------ retrieval engine

\* The ids of the retrievals (calls of fetchPrompt) of a run.
ReqIds == {"r1", "r2"}

\* The latest value of Date.now() in a run.
MaxTime == 1

\* How many retrievals a run makes one after the other.
MaxRetrievals == 2

\* ParsedPrompt: the variant and the canonical name (the repository
\* coordinates only fix the URLs and are left out).
PromptTypes == {"installed", "local", "url", "ado", "github"}

PromptNames == {"p1", "p2"}

ParsedPrompts == [type : PromptTypes, name : PromptNames]

IsRepo(parsedPrompt) == parsedPrompt.type \in {"ado", "github"}

\* File and response contents, as the list of the fragments they are made
\* of; content.includes(x) asks for the fragment x.
Contents ==
    { <<"text">>,
      <<"<html", "text">>,
      <<"Sign in to your account">>,
      <<"<HTML", "text">> }

OldContent == <<"old">>

\* The content of a file that does not exist.
NoContent == <<>>

\* tempDir before fetchViaGitToFile has named the clone directory.
NoDir == -1

\* What the HTTP GET may do: fail to connect, run into the timeout, answer
\* with a non-success status, or answer 200 with a body.
HttpOutcomes ==
    { [kind |-> "networkError", body |-> <<>>],
      [kind |-> "abort", body |-> <<>>],
      [kind |-> "status404", body |-> <<>>] }
    \cup { [kind |-> "ok", body |-> c] : c \in Contents }

\* What the credential broker may do: hand out a session silently, after an
\* interactive sign-in, refuse (getSession throws), or hand out a session
\* with an empty access token.
BrokerOutcomes == {"silent", "interactive", "refused", "emptyToken"}

\* What the clone may leave: a directory holding the target file, a
\* directory without it, or (only when git fails) nothing.
CloneOutcomes ==
    { [proc |-> o, dir |-> "withFile", content |-> c] :
        o \in ProcOutcomes, c \in Contents }
    \cup { [proc |-> o, dir |-> d, content |-> NoContent] :
             o \in ProcOutcomes, d \in {"withoutFile", "none"} }

\* Where storePromptInStorage may fail: nowhere, creating the directory,
\* updating the setting, or writing (for a file source: stat, copy).
StoreFaults == {"none", "createDirectory", "update", "stat", "write"}

NoHeaders == [Authorization |-> Absent]

NoError == [tier |-> 0, msg |-> Absent]

OurDir == "promptsDir"

FEvent(e, x) == [ev |-> e, x |-> x]

\* A faulty variant of IsSignInPage: only the tag is looked for.
IsSignInPage_TagOnly(body) == Includes(body, "<html")

\* content.includes('<html') || content.includes('Sign in to your account')
IsSignInPage(body) ==
    Includes(body, "<html") \/ Includes(body, "Sign in to your account")

\* fetchViaHttp: the content, or the error it throws.
fetchViaHttp(outcome) ==
    CASE outcome.kind = "networkError" ->
            [ok |-> FALSE, msg |-> "network error", body |-> <<>>]
      [] outcome.kind = "abort" ->
            [ok |-> FALSE, msg |-> "Request timed out", body |-> <<>>]
      [] outcome.kind = "status404" ->
            [ok |-> FALSE, msg |-> "HTTP 404", body |-> <<>>]
      [] outcome.kind = "ok" ->
            IF IsSignInPage(outcome.body)
            THEN [ok |-> FALSE, body |-> <<>>,
                  msg |-> "Authentication failed - received sign-in page"]
            ELSE [ok |-> TRUE, msg |-> Absent, body |-> outcome.body]

\* getADOAuthHeaders: the Authorization header, or the error it throws.
getADOAuthHeaders(outcome) ==
    CASE outcome \in {"silent", "interactive"} ->
            [ok |-> TRUE, msg |-> Absent,
             headers |-> [Authorization |-> "Bearer token"]]
      [] outcome = "refused" ->
            [ok |-> FALSE, msg |-> "getSession failed", headers |-> NoHeaders]
      [] outcome = "emptyToken" ->
            [ok |-> FALSE, msg |-> "Failed to get access token from VSCode",
             headers |-> NoHeaders]

\* A faulty variant of Tier1NeedsToken: no token is ever asked for.
Tier1NeedsToken_Never(type) == FALSE

\* Whether tier 1 asks the credential broker for a token before its GET
\* (`if (parsedPrompt.type === 'ado')`).
Tier1NeedsToken(type) == type = "ado"

\* executeGitCommand: resolves on exit code 0 only.
GitSucceeded(proc) == proc = "exit0"

\* A faulty variant of cleanupDirectory: nothing is removed.
cleanupDirectory_Skipped(dirs, dir, removable) == dirs

\* cleanupDirectory: removes the directory if it exists; a failing removal
\* is ignored and leaves it.
cleanupDirectory(dirs, dir, removable) ==
    IF dir \in DOMAIN dirs /\ removable
    THEN [d \in (DOMAIN dirs) \ {dir} |-> dirs[d]]
    ELSE dirs

\* What a cleanup of `dir` amounts to, for the log.
CleanupKind(dirs, dir, removable) ==
    IF dir \notin DOMAIN dirs THEN "nothingToRemove"
    ELSE IF removable THEN "removed" ELSE "removalFailed"

\* A faulty variant of FallbackError: the caught error is thrown again.
FallbackError_Rethrown(tier1Error, tier2Error) == tier1Error

\* The error the catch block of fetchWithFallbackStrategyToFile lets out:
\* tier 1's error is dropped, the clone tier's error propagates.
FallbackError(tier1Error, tier2Error) == tier2Error

\* fetchPrompt's catch: `Failed to fetch prompt: ${error.message}`.
WrapFetchError(err) == [err EXCEPT !.msg = <<"Failed to fetch prompt", @>>]

\* A faulty variant of NeedsRegistration: the setting is updated every time.
NeedsRegistration_Always(locs) == TRUE

\* ensurePromptsDirectory, `if (!currentLocations[promptsDir])`.
NeedsRegistration(locs) == OurDir \notin locs

\* ensurePromptsDirectory, `{ ...currentLocations, [promptsDir]: true }`.
RegisterLocation(locs) == locs \cup {OurDir}

\* A faulty variant of SourceExists: the existence check is left out.
SourceExists_Unchecked(source, fault) == TRUE

\* storePromptInStorage, `await vscode.workspace.fs.stat(source)` for a file
\* source: whether the stat resolves.
SourceExists(source, fault) == source # NoContent /\ fault # "stat"

\* A faulty variant of WriteFile: an existing file is kept.
WriteFile_KeepExisting(files, name, source) ==
    IF name \in DOMAIN files THEN files
    ELSE [n \in (DOMAIN files) \cup {name} |->
             IF n = name THEN source ELSE files[n]]

\* writeFile(destUri, ...) and copy(source, destUri, { overwrite: true }):
\* the file <name>.prompt.md holds the source's content afterwards.
WriteFile(files, name, source) ==
    [n \in (DOMAIN files) \cup {name} |->
        IF n = name THEN source ELSE files[n]]

\* ensurePromptsDirectory and the write of storePromptInStorage, as far as
\* `fault` lets them get: the registered directories, the notifications and
\* the stored files afterwards, whether the write or copy was attempted, and
\* whether the store succeeded.  `source` is the content to write, or
\* NoContent for a source file that does not exist.
storePromptInStorage(source, isFile, name, fault) ==
    LET mkdirOk   == fault # "createDirectory"
        register  == mkdirOk /\ NeedsRegistration(locations)
        updateOk  == fault # "update"
        ensured   == mkdirOk /\ (register => updateOk)
        statOk    == ~isFile \/ SourceExists(source, fault)
        attempted == ensured /\ statOk
        writeOk   == attempted /\ fault # "write" /\ (isFile => source # NoContent)
    IN  [ ok |-> writeOk,
          ensured |-> ensured,
          attempted |-> attempted,
          msg |-> IF ~ensured THEN "Failed to setup prompts directory"
                  ELSE IF ~statOk THEN "Source file not found"
                  ELSE IF ~writeOk THEN "Failed to write to storage"
                  ELSE Absent,
          locations |-> IF register /\ updateOk
                        THEN RegisterLocation(locations) ELSE locations,
          notifications |-> IF register /\ updateOk
                            THEN notifications + 1 ELSE notifications,
          storage |-> IF writeOk
                      THEN WriteFile(storage, name, source)
                      ELSE storage ]

FLogged(r, events) == flog' = [flog EXCEPT ![r] = @ \o events]

\* fetchPrompt returns.
FinishOk(r) ==
    /\ fresult' = [fresult EXCEPT ![r] = "ok"]
    /\ fpc' = [fpc EXCEPT ![r] = "done"]
    /\ UNCHANGED <<ferror, caught, tempDir>>

\* fetchPrompt throws `err`, wrapped by its catch block.
FinishThrow(r, err) ==
    /\ fresult' = [fresult EXCEPT ![r] = "throws"]
    /\ ferror' = [ferror EXCEPT ![r] = WrapFetchError(err)]
    /\ fpc' = [fpc EXCEPT ![r] = "done"]
    /\ UNCHANGED <<caught, tempDir>>

\* The catch block of fetchWithFallbackStrategyToFile catches `err` and
\* calls fetchViaGitToFile, which names its clone directory after Date.now()
\* and starts the clone.
EnterClone(r, err) ==
    /\ caught' = [caught EXCEPT ![r] = err]
    /\ tempDir' = [tempDir EXCEPT ![r] = now]
    /\ fpc' = [fpc EXCEPT ![r] = "clone"]
    /\ UNCHANGED <<fresult, ferror>>

\* What a failure in the try block of tier 1 or in a direct fetch leads to:
\* the clone tier for a repo address, an error otherwise.
Tier1Failed(r, msg) ==
    IF IsRepo(prompt[r])
    THEN EnterClone(r, [tier |-> 1, msg |-> msg])
    ELSE FinishThrow(r, [tier |-> 0, msg |-> msg])

\* fetchPrompt up to its first await: the switch over the variant.
FetchPrompt(r) ==
    /\ fpc[r] = "start"
    /\ LET type == prompt[r].type IN
       CASE type = "installed" ->
               /\ FinishOk(r)
               /\ UNCHANGED headers
         [] type = "local" ->
               /\ fpc' = [fpc EXCEPT ![r] = "storeLocal"]
               /\ UNCHANGED <<headers, fresult, ferror, caught, tempDir>>
         [] type = "url" ->
               /\ fpc' = [fpc EXCEPT ![r] = "http"]
               /\ headers' = [headers EXCEPT ![r] = NoHeaders]
               /\ UNCHANGED <<fresult, ferror, caught, tempDir>>
         [] type \in {"ado", "github"} ->
               /\ fpc' = [fpc EXCEPT ![r] =
                            IF Tier1NeedsToken(type) THEN "auth" ELSE "http"]
               /\ headers' = [headers EXCEPT ![r] = NoHeaders]
               /\ UNCHANGED <<fresult, ferror, caught, tempDir>>
    /\ UNCHANGED <<now, factive, prompt, content, flog, storage, locations,
                   notifications, tmpDirs, localFile>>
    /\ UNCHANGED <<ivars, svars, cvars, pvars, evars, ovars>>

\* fetchWithFallbackStrategyToFile, `headers = await this.getADOAuthHeaders()`.
GetADOAuthHeaders(r) ==
    /\ fpc[r] = "auth"
    /\ \E outcome \in BrokerOutcomes :
          LET got == getADOAuthHeaders(outcome) IN
          /\ FLogged(r, <<FEvent("token", outcome)>>)
          /\ IF got.ok
             THEN /\ headers' = [headers EXCEPT ![r] = got.headers]
                  /\ fpc' = [fpc EXCEPT ![r] = "http"]
                  /\ UNCHANGED <<fresult, ferror, caught, tempDir>>
             ELSE /\ Tier1Failed(r, got.msg)
                  /\ UNCHANGED headers
    /\ UNCHANGED <<now, factive, prompt, content, storage, locations,
                   notifications, tmpDirs, localFile>>
    /\ UNCHANGED <<ivars, svars, cvars, pvars, evars, ovars>>

\* `content = await this.fetchViaHttp(url, headers)`, of tier 1 and of a
\* direct URL.
FetchViaHttp(r) ==
    /\ fpc[r] = "http"
    /\ \E outcome \in HttpOutcomes :
          LET got == fetchViaHttp(outcome) IN
          /\ FLogged(r, <<FEvent("GET", [headers |-> headers[r],
                                         outcome |-> outcome])>>)
          /\ IF got.ok
             THEN /\ content' = [content EXCEPT ![r] = got.body]
                  /\ fpc' = [fpc EXCEPT ![r] = "store"]
                  /\ UNCHANGED <<fresult, ferror, caught, tempDir>>
             ELSE /\ Tier1Failed(r, got.msg)
                  /\ UNCHANGED content
    /\ UNCHANGED <<now, factive, prompt, headers, storage, locations,
                   notifications, tmpDirs, localFile>>
    /\ UNCHANGED <<ivars, svars, cvars, pvars, evars, ovars>>

\* `await this.storePromptInStorage(content, name, context)`, of tier 1 and
\* of a direct URL.
StoreContent(r) ==
    /\ fpc[r] = "store"
    /\ \E fault \in StoreFaults \ {"stat"} :
          LET st == storePromptInStorage(content[r], FALSE, prompt[r].name, fault) IN
          /\ storage' = st.storage
          /\ locations' = st.locations
          /\ notifications' = st.notifications
          /\ FLogged(r, <<FEvent("store", [source |-> "http", ok |-> st.ok,
                                           ensured |-> st.ensured,
                                           attempted |-> st.attempted,
                                           msg |-> st.msg,
                                           content |-> content[r]])>>)
          /\ IF st.ok THEN FinishOk(r) ELSE Tier1Failed(r, st.msg)
    /\ UNCHANGED <<now, factive, prompt, headers, content, tmpDirs, localFile>>
    /\ UNCHANGED <<ivars, svars, cvars, pvars, evars, ovars>>

\* fetchPrompt, `await this.storePromptInStorage(sourceUri, name, context)`
\* for a local path.
StoreLocal(r) ==
    /\ fpc[r] = "storeLocal"
    /\ \E fault \in StoreFaults :
          LET st == storePromptInStorage(localFile, TRUE, prompt[r].name, fault) IN
          /\ storage' = st.storage
          /\ locations' = st.locations
          /\ notifications' = st.notifications
          /\ FLogged(r, <<FEvent("store", [source |-> "local", ok |-> st.ok,
                                           ensured |-> st.ensured,
                                           attempted |-> st.attempted,
                                           msg |-> st.msg,
                                           content |-> localFile])>>)
          /\ IF st.ok THEN FinishOk(r)
                      ELSE FinishThrow(r, [tier |-> 0, msg |-> st.msg])
    /\ UNCHANGED <<now, factive, prompt, headers, content, tmpDirs, localFile>>
    /\ UNCHANGED <<ivars, svars, cvars, pvars, evars, ovars>>

\* fetchViaGitToFile, `await this.executeGitCommand(['clone', ...])`; when
\* git fails, the catch block cleans up and rethrows.
GitClone(r) ==
    /\ fpc[r] = "clone"
    /\ \E outcome \in CloneOutcomes :
          LET dir == tempDir[r]
              cloned ==
                 IF outcome.dir = "none" THEN tmpDirs
                 ELSE [d \in (DOMAIN tmpDirs) \cup {dir} |->
                          IF d # dir THEN tmpDirs[d]
                          ELSE IF outcome.dir = "withFile"
                               THEN outcome.content ELSE NoContent]
          IN
          /\ GitSucceeded(outcome.proc) => outcome.dir # "none"
          /\ IF GitSucceeded(outcome.proc)
             THEN /\ tmpDirs' = cloned
                  /\ FLogged(r, <<FEvent("clone", outcome.proc)>>)
                  /\ fpc' = [fpc EXCEPT ![r] = "copy"]
                  /\ UNCHANGED <<fresult, ferror, caught, tempDir>>
             ELSE \E removable \in BOOLEAN :
                  /\ tmpDirs' = cleanupDirectory(cloned, dir, removable)
                  /\ FLogged(r, <<FEvent("clone", outcome.proc),
                                  FEvent("cleanup",
                                         CleanupKind(cloned, dir, removable))>>)
                  /\ FinishThrow(r, FallbackError(caught[r],
                                     [tier |-> 2, msg |-> "Git command failed"]))
    /\ UNCHANGED <<now, factive, prompt, headers, content, storage, locations,
                   notifications, localFile>>
    /\ UNCHANGED <<ivars, svars, cvars, pvars, evars, ovars>>

\* fetchViaGitToFile, `await this.storePromptInStorage(sourceUri, ...)` and
\* the cleanup that follows it on the success path and in the catch block.
CopyFromClone(r) ==
    /\ fpc[r] = "copy"
    /\ \E fault \in StoreFaults, removable \in BOOLEAN :
          LET dir == tempDir[r]
              file == IF dir \in DOMAIN tmpDirs THEN tmpDirs[dir] ELSE NoContent
              st == storePromptInStorage(file, TRUE, prompt[r].name, fault)
          IN
          /\ storage' = st.storage
          /\ locations' = st.locations
          /\ notifications' = st.notifications
          /\ tmpDirs' = cleanupDirectory(tmpDirs, dir, removable)
          /\ FLogged(r, <<FEvent("store", [source |-> "clone", ok |-> st.ok,
                                           ensured |-> st.ensured,
                                           attempted |-> st.attempted,
                                           msg |-> st.msg,
                                           content |-> file]),
                          FEvent("cleanup",
                                 CleanupKind(tmpDirs, dir, removable))>>)
          /\ IF st.ok
             THEN FinishOk(r)
             ELSE FinishThrow(r, FallbackError(caught[r],
                                    [tier |-> 2, msg |-> st.msg]))
    /\ UNCHANGED <<now, factive, prompt, headers, content, localFile>>
    /\ UNCHANGED <<ivars, svars, cvars, pvars, evars, ovars>>

\* Time passes.
Tick ==
    /\ now < MaxTime
    /\ now' = now + 1
    /\ UNCHANGED <<factive, prompt, fpc, headers, content, tempDir, fresult,
                   ferror, caught, flog, storage, locations, notifications,
                   tmpDirs, localFile>>
    /\ UNCHANGED <<ivars, svars, cvars, pvars, evars, ovars>>

\* What retrieval r wrote into storage: the content of its successful
\* store, or NoContent when it has none.
StoredBy(r) ==
    LET oks == { k \in 1..Len(flog[r]) :
                    flog[r][k].ev = "store" /\ flog[r][k].x.ok }
    IN  IF oks = {} THEN NoContent
        ELSE flog[r][CHOOSE k \in oks : TRUE].x.content

\* fetchPrompt has returned or thrown and is called again, with any address.
NextRetrieval(r) ==
    /\ fpc[r] = "done"
    /\ retrievals < MaxRetrievals
    /\ retrievals' = retrievals + 1
    /\ last' = IF fresult[r] = "ok" /\ prompt[r].type # "installed"
               THEN [n \in (DOMAIN last) \cup {prompt[r].name} |->
                        IF n = prompt[r].name
                        THEN [type |-> prompt[r].type, content |-> StoredBy(r)]
                        ELSE last[n]]
               ELSE last
    /\ \E p \in ParsedPrompts : prompt' = [prompt EXCEPT ![r] = p]
    /\ fpc' = [fpc EXCEPT ![r] = "start"]
    /\ headers' = [headers EXCEPT ![r] = NoHeaders]
    /\ content' = [content EXCEPT ![r] = NoContent]
    /\ tempDir' = [tempDir EXCEPT ![r] = NoDir]
    /\ fresult' = [fresult EXCEPT ![r] = "pending"]
    /\ ferror' = [ferror EXCEPT ![r] = NoError]
    /\ caught' = [caught EXCEPT ![r] = NoError]
    /\ flog' = [flog EXCEPT ![r] = <<>>]
    /\ UNCHANGED <<now, factive, storage, locations, notifications, tmpDirs,
                   localFile>>
    /\ UNCHANGED <<ivars, cvars, pvars, evars, ovars>>

\* ------------------------------------------- remote prompt session: data

\* A string as the list of its characters.
McpPrefix == <<"m", "c", "p">>

NameA == <<"A">>

NameB == <<"B">>

\* mcpPromptName: well-formed for service A and for service B, too few
\* parts, too many parts, and a wrong prefix.
McpPromptNames ==
    { McpPrefix \o <<".">> \o NameA \o <<".", "p">>,
      McpPrefix \o <<".">> \o NameB \o <<".", "p">>,
      McpPrefix \o <<".">> \o NameA,
      McpPrefix \o <<".">> \o NameA \o <<".", "p", ".", "q">>,
      <<"x", ".">> \o NameA \o <<".", "p">> }

\* The argument payload as its JSON tokens; the empty list is the empty (or
\* absent) string.
NoInput == <<>>

EmptyObject == <<"{", "}">>

Inputs ==
    { NoInput,
      EmptyObject,
      <<"{", "\"a\"", ":", "1", "}">>,
      <<"{", "\"a\"", ":", "[", "1", "]", "}">>,
      <<"[", "]">>,
      <<"[", "{", "}", "]">>,
      <<"1">>,
      <<"\"a\"">>,
      <<"null">>,
      <<"true">>,
      <<"{">>,
      <<"{", "\"a\"", ":", "}">>,
      <<"{", "1", ":", "1", "}">>,
      <<"{", "}", "}">>,
      <<"x">> }

JsonStrings == {"\"a\""}

JsonScalars == JsonStrings \cup {"1", "null", "true"}

\* McpServerConfig: name, type and what the transports need.
ClientConfigs ==
    [ name : {NameA},
      type : {"stdio", "http", "sse"},
      command : {Absent, "cmd"},
      url : {Absent, "https://mcp"} ]

NoConfig == [name |-> <<>>, type |-> Absent, command |-> Absent, url |-> Absent]

\* mcpServers: undefined, empty, one descriptor, or the descriptor behind
\* another one of the same name.
McpServerLists ==
    { [defined |-> FALSE, list |-> <<>>], [defined |-> TRUE, list |-> <<>>] }
    \cup { [defined |-> TRUE, list |-> <<c>>] : c \in ClientConfigs }
    \cup { [defined |-> TRUE,
            list |-> <<[name |-> NameA, type |-> "stdio", command |-> "cmd",
                        url |-> Absent], c>>] : c \in ClientConfigs }
    \cup { [defined |-> TRUE,
            list |-> <<[name |-> NameB, type |-> "stdio", command |-> "cmd",
                        url |-> Absent]>>] }

\* Authorization server URLs, as the pieces they are made of.
MicrosoftServer == <<"https://", "login.microsoftonline.com", "/tenant">>

OtherServer == <<"https://", "auth.example.com">>

\* Another provider's URL that has the Microsoft host name in its path.
LookalikeServer ==
    <<"https://", "auth.example.com", "/", "login.microsoftonline.com">>

\* What discoverOAuthProtectedResourceMetadata may do: resolve with metadata
\* (authorization_servers absent, empty or listed) or throw.
DiscoveryOutcomes ==
    { [kind |-> "metadata", listed |-> FALSE, servers |-> <<>>, msg |-> <<>>],
      [kind |-> "metadata", listed |-> TRUE, servers |-> <<>>, msg |-> <<>>] }
    \cup { [kind |-> "metadata", listed |-> TRUE, servers |-> l, msg |-> <<>>] :
             l \in { <<MicrosoftServer>>, <<OtherServer>>, <<LookalikeServer>>,
                     <<MicrosoftServer, OtherServer>>,
                     <<OtherServer, MicrosoftServer>> } }
    \cup { [kind |-> "throws", listed |-> FALSE, servers |-> <<>>, msg |-> m] :
             m \in { <<"fetch failed">>,
                     <<"HTTP 404">>,
                     <<"Protocol version", "not supported">> } }

\* What vscode.authentication.getSession may do: resolve with a session,
\* resolve with one that has no access token, or throw.
SessionOutcomes == {"token", "emptyToken", "refused"}

\* What client.connect may do: succeed, or throw with a message.
ConnectOutcomes ==
    { [ok |-> TRUE, msg |-> <<>>],
      [ok |-> FALSE, msg |-> <<"Unauthorized">>],
      [ok |-> FALSE, msg |-> <<"HTTP ", "403">>],
      [ok |-> FALSE, msg |-> <<"ECONNREFUSED">>] }

\* What the render request may do: answer with a text message, with no
\* message, with a message that is not text, or throw.
RenderOutcomes == {"text", "noMessages", "imageContent", "rpcError"}

\* What client.close may do.
CloseOutcomes == {"closed", "closeThrows"}

NoTransport == [kind |-> Absent, auth |-> Absent]

NoValue == [kind |-> Absent, msg |-> <<>>]

CEvent(e, x) == [ev |-> e, x |-> x]

CError(kind, msg) == [kind |-> kind, msg |-> msg]

\* ------------------------------------- remote prompt session: operations

\* JSON.parse, over the tokens of the text: the kind of the value parsed
\* from position i and the position behind it, or a syntax error.
RECURSIVE ParseValue(_, _), ParseMembers(_, _), ParseElements(_, _)
ParseValue(t, i) ==
    IF i > Len(t) THEN [ok |-> FALSE, kind |-> "syntaxError", next |-> i]
    ELSE IF t[i] = "{"
    THEN IF i < Len(t) /\ t[i + 1] = "}"
         THEN [ok |-> TRUE, kind |-> "object", next |-> i + 2]
         ELSE ParseMembers(t, i + 1)
    ELSE IF t[i] = "["
    THEN IF i < Len(t) /\ t[i + 1] = "]"
         THEN [ok |-> TRUE, kind |-> "array", next |-> i + 2]
         ELSE ParseElements(t, i + 1)
    ELSE IF t[i] \in JsonStrings
    THEN [ok |-> TRUE, kind |-> "string", next |-> i + 1]
    ELSE IF t[i] = "1" THEN [ok |-> TRUE, kind |-> "number", next |-> i + 1]
    ELSE IF t[i] = "null" THEN [ok |-> TRUE, kind |-> "null", next |-> i + 1]
    ELSE IF t[i] = "true" THEN [ok |-> TRUE, kind |-> "boolean", next |-> i + 1]
    ELSE [ok |-> FALSE, kind |-> "syntaxError", next |-> i]

\* The members of an object from position i: "key": value, ... }
ParseMembers(t, i) ==
    IF i + 1 > Len(t) \/ t[i] \notin JsonStrings \/ t[i + 1] # ":"
    THEN [ok |-> FALSE, kind |-> "syntaxError", next |-> i]
    ELSE LET v == ParseValue(t, i + 2) IN
         IF ~v.ok \/ v.next > Len(t)
         THEN [ok |-> FALSE, kind |-> "syntaxError", next |-> v.next]
         ELSE IF t[v.next] = "}"
         THEN [ok |-> TRUE, kind |-> "object", next |-> v.next + 1]
         ELSE IF t[v.next] = ","
         THEN ParseMembers(t, v.next + 1)
         ELSE [ok |-> FALSE, kind |-> "syntaxError", next |-> v.next]

\* The elements of an array from position i: value, ... ]
ParseElements(t, i) ==
    LET v == ParseValue(t, i) IN
    IF ~v.ok \/ v.next > Len(t)
    THEN [ok |-> FALSE, kind |-> "syntaxError", next |-> v.next]
    ELSE IF t[v.next] = "]"
    THEN [ok |-> TRUE, kind |-> "array", next |-> v.next + 1]
    ELSE IF t[v.next] = ","
    THEN ParseElements(t, v.next + 1)
    ELSE [ok |-> FALSE, kind |-> "syntaxError", next |-> v.next]

\* JSON.parse(text): the whole text must be one value.
JsonParse(t) ==
    LET v == ParseValue(t, 1) IN
    IF v.ok /\ v.next = Len(t) + 1 THEN v.kind ELSE "syntaxError"

\* A faulty variant of IsArgumentObject: arrays pass as well.
IsArgumentObject_ArraysToo(kind) == kind \in {"object", "array"}

\* typeof parsed === 'object' && parsed !== null && !Array.isArray(parsed)
IsArgumentObject(kind) == kind = "object"

\* getPrompt, the parsing of `input`: the argument object, or the error.
ParseArguments(text) ==
    IF text = NoInput THEN [ok |-> TRUE, args |-> EmptyObject]
    ELSE IF IsArgumentObject(JsonParse(text))
    THEN [ok |-> TRUE, args |-> text]
    ELSE [ok |-> FALSE, args |-> EmptyObject]

\* The first descriptor of the list, from position i on, with the name.
RECURSIVE FindFrom(_, _, _)
FindFrom(list, name, i) ==
    IF i > Len(list) THEN [found |-> FALSE, config |-> NoConfig]
    ELSE IF list[i].name = name THEN [found |-> TRUE, config |-> list[i]]
    ELSE FindFrom(list, name, i + 1)

\* mcpServers?.find(server => server.name === serverName)
FindServer(given, name) ==
    IF given.defined THEN FindFrom(given.list, name, 1)
    ELSE [found |-> FALSE, config |-> NoConfig]

\* authServer.includes('login.microsoftonline.com')
IsMicrosoft(authServer) == Includes(authServer, "login.microsoftonline.com")

\* A faulty variant of Rethrown: no error leaves the catch block.
Rethrown_Never(msg) == FALSE

\* createAuthenticatedTransport's catch block,
\* `error.message.includes('not supported')`: whether the error is rethrown.
Rethrown(msg) == Includes(msg, "not supported")

UnsupportedMessage(authServer) ==
    <<"OAuth server ">> \o authServer
        \o <<" ", "not supported", ". Currently only Microsoft OAuth is supported.">>

BasicTransport == [kind |-> "http", auth |-> Absent]

BearerTransport == [kind |-> "http", auth |-> "Bearer token"]

StdioTransport == [kind |-> "stdio", auth |-> Absent]

\* What an error thrown inside createAuthenticatedTransport's try block
\* leads to: the error itself, or a transport without credentials.
CatchInTransport(error) ==
    IF Rethrown(error.msg)
    THEN [next |-> "throws", transport |-> NoTransport, error |-> error]
    ELSE [next |-> "connect", transport |-> BasicTransport, error |-> NoValue]

\* createAuthenticatedTransport up to the call of getSession: what the
\* discovery's outcome leads to.
AfterDiscovery(outcome) ==
    IF outcome.kind = "throws"
    THEN CatchInTransport(CError("DiscoveryFailed", outcome.msg))
    ELSE IF outcome.listed /\ Len(outcome.servers) > 0
    THEN LET authServer == outcome.servers[1] IN
         IF IsMicrosoft(authServer)
         THEN [next |-> "getSession", transport |-> NoTransport,
               error |-> NoValue]
         ELSE CatchInTransport(CError("UnsupportedAuthProvider",
                                      UnsupportedMessage(authServer)))
    ELSE [next |-> "connect", transport |-> BasicTransport, error |-> NoValue]

\* createAuthenticatedTransport from the call of getSession on.
AfterSession(outcome) ==
    CASE outcome = "token" ->
            [next |-> "connect", transport |-> BearerTransport,
             error |-> NoValue]
      [] outcome = "emptyToken" ->
            CatchInTransport(
                CError("AuthenticationFailed",
                       <<"Microsoft authentication failed or was cancelled">>))
      [] outcome = "refused" ->
            CatchInTransport(
                CError("SessionRefused", <<"User did not consent to login.">>))

\* createClient's catch block around client.connect.
ConnectError(msg) ==
    IF Includes(msg, "Unauthorized") \/ Includes(msg, "401")
          \/ Includes(msg, "403")
    THEN CError("AuthenticationFailed", <<"Authentication failed for MCP server">>)
    ELSE CError("ConnectFailed", <<"Failed to connect to MCP server: ">> \o msg)

\* getPrompt's try block: the text it returns or the error its catch block
\* throws.
RenderResult(outcome) ==
    CASE outcome = "text" -> [kind |-> "text", msg |-> <<"rendered">>]
      [] outcome \in {"noMessages", "imageContent"} ->
            CError("RenderFailed",
                   <<"Failed to fetch prompt: ",
                     "No text content found in MCP prompt response">>)
      [] outcome = "rpcError" ->
            CError("RenderFailed", <<"Failed to fetch prompt: ", "rpc error">>)

\* A faulty variant of CloseCalls: the session is left open.
CloseCalls_Missing(outcome) == <<>>

\* getPrompt's finally block, `await client.close()`.
CloseCalls(outcome) == <<CEvent("close", outcome)>>

\* A faulty variant of AfterClose: a failing close replaces the outcome.
AfterClose_Propagates(outcome, closeOutcome) ==
    IF closeOutcome = "closeThrows"
    THEN CError("CloseFailed", <<"close failed">>)
    ELSE outcome

\* getPrompt's finally block: the close error is caught and logged, the
\* outcome of the try block stands.
AfterClose(outcome, closeOutcome) == outcome

CLogged(events) == clog' = clog \o events

\* getPrompt throws `err`.
CThrow(err) ==
    /\ cresult' = "throws"
    /\ cvalue' = err
    /\ cpc' = "done"

\* getPrompt up to `await this.createClient(...)`: the name's format, the
\* lookup of the service and the parsing of the arguments.
GetPrompt ==
    /\ cpc = "start"
    /\ LET mcpParts == Split(mcpPromptName, ".")
           found == FindServer(mcpServers, mcpParts[2])
           parsed == ParseArguments(input)
       IN  IF Len(mcpParts) # 3 \/ mcpParts[1] # McpPrefix
           THEN /\ CThrow(CError("InvalidFormat", <<"Invalid MCP prompt format">>))
                /\ UNCHANGED <<serverConfig, promptArgs>>
           ELSE IF ~found.found
           THEN /\ CThrow(CError("ServiceNotConfigured",
                                 <<"MCP server not found in provided configuration">>))
                /\ UNCHANGED <<serverConfig, promptArgs>>
           ELSE IF ~parsed.ok
           THEN /\ CThrow(CError("InvalidArguments",
                                 <<"MCP prompt input must be valid JSON object format">>))
                /\ UNCHANGED <<serverConfig, promptArgs>>
           ELSE /\ serverConfig' = found.config
                /\ promptArgs' = parsed.args
                /\ cpc' = "createClient"
                /\ UNCHANGED <<cresult, cvalue>>
    /\ UNCHANGED <<mcpPromptName, input, mcpServers, transport, pending, clog>>
    /\ UNCHANGED <<ivars, fvars, pvars, evars, ovars>>

\* createClient up to its first await: the transport for the descriptor's
\* type.
CreateClient ==
    /\ cpc = "createClient"
    /\ CASE serverConfig.type = "stdio" ->
               IF ~Truthy(serverConfig.command)
               THEN /\ CThrow(CError("MissingCommand",
                                     <<"requires a command for stdio transport">>))
                    /\ UNCHANGED <<transport, clog>>
               ELSE /\ transport' = StdioTransport
                    /\ CLogged(<<CEvent("transport", StdioTransport)>>)
                    /\ cpc' = "connect"
                    /\ UNCHANGED <<cresult, cvalue>>
         [] serverConfig.type = "http" ->
               IF ~Truthy(serverConfig.url)
               THEN /\ CThrow(CError("MissingUrl",
                                     <<"requires a URL for HTTP transport">>))
                    /\ UNCHANGED <<transport, clog>>
               ELSE /\ cpc' = "discover"
                    /\ UNCHANGED <<transport, clog, cresult, cvalue>>
         [] OTHER ->
               /\ CThrow(CError("UnsupportedTransport",
                                <<"transport type ", "not supported">>))
               /\ UNCHANGED <<transport, clog>>
    /\ UNCHANGED <<mcpPromptName, input, mcpServers, serverConfig, promptArgs,
                   pending>>
    /\ UNCHANGED <<ivars, fvars, pvars, evars, ovars>>

\* What createAuthenticatedTransport ends with: a transport, the call of
\* getSession, or an error that createClient and getPrompt let through.
TransportStep(event, step) ==
    CASE step.next = "connect" ->
            /\ transport' = step.transport
            /\ CLogged(<<event, CEvent("transport", step.transport)>>)
            /\ cpc' = "connect"
            /\ UNCHANGED <<cresult, cvalue>>
      [] step.next = "getSession" ->
            /\ CLogged(<<event>>)
            /\ cpc' = "getSession"
            /\ UNCHANGED <<transport, cresult, cvalue>>
      [] step.next = "throws" ->
            /\ CLogged(<<event>>)
            /\ CThrow(step.error)
            /\ UNCHANGED transport

\* createAuthenticatedTransport,
\* `await discoverOAuthProtectedResourceMetadata(serverUrl)`.
Discover ==
    /\ cpc = "discover"
    /\ \E outcome \in DiscoveryOutcomes :
          TransportStep(CEvent("discover", outcome), AfterDiscovery(outcome))
    /\ UNCHANGED <<mcpPromptName, input, mcpServers, serverConfig, promptArgs,
                   pending>>
    /\ UNCHANGED <<ivars, fvars, pvars, evars, ovars>>

\* createAuthenticatedTransport, `await vscode.authentication.getSession(...)`.
GetSession ==
    /\ cpc = "getSession"
    /\ \E outcome \in SessionOutcomes :
          TransportStep(CEvent("getSession", outcome), AfterSession(outcome))
    /\ UNCHANGED <<mcpPromptName, input, mcpServers, serverConfig, promptArgs,
                   pending>>
    /\ UNCHANGED <<ivars, fvars, pvars, evars, ovars>>

\* createClient, `await client.connect(transport)`.
Connect ==
    /\ cpc = "connect"
    /\ \E outcome \in ConnectOutcomes :
          /\ CLogged(<<CEvent("connect", [transport |-> transport,
                                          ok |-> outcome.ok])>>)
          /\ IF outcome.ok
             THEN /\ cpc' = "render"
                  /\ UNCHANGED <<cresult, cvalue>>
             ELSE CThrow(ConnectError(outcome.msg))
    /\ UNCHANGED <<mcpPromptName, input, mcpServers, serverConfig, promptArgs,
                   transport, pending>>
    /\ UNCHANGED <<ivars, fvars, pvars, evars, ovars>>

\* getPrompt, `await client.getPrompt({ name, arguments })` and what the try
\* and catch blocks make of the answer.
Render ==
    /\ cpc = "render"
    /\ \E outcome \in RenderOutcomes :
          /\ CLogged(<<CEvent("render", [arguments |-> promptArgs,
                                         outcome |-> outcome])>>)
          /\ pending' = RenderResult(outcome)
    /\ cpc' = "close"
    /\ UNCHANGED <<mcpPromptName, input, mcpServers, serverConfig, promptArgs,
                   transport, cresult, cvalue>>
    /\ UNCHANGED <<ivars, fvars, pvars, evars, ovars>>

\* getPrompt's finally block; then the text is returned or the error thrown.
Close ==
    /\ cpc = "close"
    /\ \E outcome \in CloseOutcomes :
          LET final == AfterClose(pending, outcome) IN
          /\ CLogged(CloseCalls(outcome))
          /\ cresult' = IF final.kind = "text" THEN "returns" ELSE "throws"
          /\ cvalue' = final
    /\ cpc' = "done"
    /\ UNCHANGED <<mcpPromptName, input, mcpServers, serverConfig, promptArgs,
                   transport, pending>>
    /\ UNCHANGED <<ivars, fvars, pvars, evars, ovars>>

\* ------------------------------------------------- version comparison

\* The segments of the compared versions: zero or two, and for the leading
\* segment also a two-digit number (10 is above 2 as a number and below it
\* as text).
SegmentValues == { <<"0">>, <<"2">> }

LeadingValues == SegmentValues \cup { <<"1", "0">> }

\* What may follow the numeric core: nothing, a pre-release tag, build
\* metadata, both, or build metadata with a hyphen inside.
Suffixes ==
    { <<>>, <<"-", "a">>, <<"+", "m">>, <<"-", "a", "+", "m">>,
      <<"+", "m", "-", "x">> }

Versions ==
    { Join(<<h>> \o p, <<".">>) \o x :
        h \in LeadingValues,
        p \in UNION { [1..k -> SegmentValues] : k \in 0..(MaxSegments - 1) },
        x \in Suffixes }

\* One call of isVersionSufficient(installed, required).
IsVersionSufficient ==
    /\ ~compared
    /\ compared' = TRUE
    /\ sufficient' = isVersionSufficient(verInstalled, verRequired)
    /\ UNCHANGED <<verInstalled, verRequired>>
    /\ UNCHANGED <<address, parseResult, promptName, withExtension>>
    /\ UNCHANGED <<ivars, fvars, cvars, evars, ovars>>

\* ------------------------------------------------------ address parser

PromptMd == <<".", "p", "r", "o", "m", "p", "t", ".", "m", "d">>

\* const extensions = ['.prompt.md', '.md', '.txt', '.json']
Extensions == { PromptMd, <<".", "m", "d">>, <<".", "t", "x", "t">>, <<".", "j", "s", "o", "n">> }

\* A variant that leaves any path with a '.' in it alone.
addDefaultExtension_UnlessDotted(path) ==
    IF Includes(path, ".") THEN path ELSE path \o PromptMd

addDefaultExtension(path) ==
    LET hasExtension == \E ext \in Extensions : EndsWith(path, ext)
    IN  IF hasExtension THEN path ELSE path \o PromptMd

getPromptName(p) ==
    LET parts    == SplitAny(p, {"/", "\\", ":"})
        lastPart == parts[Len(parts)]
    IN  IF EndsWith(lastPart, PromptMd) THEN RemoveFirst(lastPart, PromptMd)
        ELSE RemoveLastExtension(lastPart)

\* A field that a ParsedPrompt does not have.
NoField == <<>>

NoParsedPrompt ==
    [type |-> "", name |-> NoField, url |-> NoField, localPath |-> NoField,
     org |-> NoField, project |-> NoField, owner |-> NoField,
     repo |-> NoField, filePath |-> NoField,
     error |-> "", platform |-> NoField]

\* throw new Error(...): the kind of the message, and for an unsupported
\* platform the tag that the message names.
ParseError(kind, tag) ==
    [NoParsedPrompt EXCEPT !.type = "error", !.error = kind, !.platform = tag]

McpDot == <<"m", "c", "p", ".">>

\* A variant that accepts any address with at least three parts.
parseMcp_AtLeastThree(p) ==
    IF Len(Split(p, ".")) < 3 THEN ParseError("InvalidMcpFormat", NoField)
    ELSE [NoParsedPrompt EXCEPT !.type = "mcp", !.name = p]

\* The branch of prompt.startsWith('mcp.').
parseMcp(p) ==
    LET mcpParts == Split(p, ".")
    IN  IF Len(mcpParts) # 3 THEN ParseError("InvalidMcpFormat", NoField)
        ELSE [NoParsedPrompt EXCEPT !.type = "mcp", !.name = p]

\* A variant that keeps the last part only.
PathAfter_LastOnly(parts, n) == parts[Len(parts)]

\* const [..., ...pathParts] = parts; pathParts.join('/'), behind n leading
\* parts.
PathAfter(parts, n) == Join(SubSeq(parts, n + 1, Len(parts)), <<"/">>)

\* The branch of prompt.includes(':').
parseShorthand(p) ==
    LET name     == getPromptName(p)
        extended == addDefaultExtension(p)
        pieces   == Split(extended, ":")
        platform == pieces[1]
        rest     == Tail(pieces)
        fullPath == Join(rest, <<":">>)
        parts    == Split(fullPath, "/")
    IN  IF Len(rest) = 0 THEN ParseError("InvalidFormat", NoField)
        ELSE IF platform = <<"a", "d", "o">> THEN
            IF Len(parts) < 4 THEN ParseError("InvalidAdoFormat", NoField)
            ELSE [NoParsedPrompt EXCEPT
                    !.type = "ado", !.name = name, !.org = parts[1],
                    !.project = parts[2], !.repo = parts[3],
                    !.filePath = PathAfter(parts, 3)]
        ELSE IF platform = <<"g", "h">> THEN
            IF Len(parts) < 3 THEN ParseError("InvalidGitHubFormat", NoField)
            ELSE [NoParsedPrompt EXCEPT
                    !.type = "github", !.name = name, !.owner = parts[1],
                    !.repo = parts[2], !.filePath = PathAfter(parts, 2)]
        ELSE ParseError("UnsupportedPlatform", platform)

\* prompt.match(/^[a-zA-Z]:\\/) || prompt.startsWith('/')
IsAbsolutePath(p) ==
    \/ Len(p) >= 3 /\ p[1] \in AsciiLetters /\ p[2] = ":" /\ p[3] = "\\"
    \/ StartsWith(p, <<"/">>)

IsUrl(p) == StartsWith(p, <<"h", "t", "t", "p", ":", "/", "/">>) \/ StartsWith(p, <<"h", "t", "t", "p", "s", ":", "/", "/">>)

\* A variant that looks for the ':' before the URL and path forms.
parsePrompt_ColonFirst(p) ==
    IF StartsWith(p, McpDot) THEN parseMcp(p)
    ELSE IF Includes(p, ":") THEN parseShorthand(p)
    ELSE IF IsUrl(p) THEN
        [NoParsedPrompt EXCEPT !.type = "url", !.name = getPromptName(p),
                               !.url = addDefaultExtension(p)]
    ELSE IF IsAbsolutePath(p) THEN
        [NoParsedPrompt EXCEPT !.type = "local", !.name = getPromptName(p),
                               !.localPath = addDefaultExtension(p)]
    ELSE [NoParsedPrompt EXCEPT !.type = "installed", !.name = p]

parsePrompt(p) ==
    IF StartsWith(p, McpDot) THEN parseMcp(p)
    ELSE IF IsUrl(p) THEN
        [NoParsedPrompt EXCEPT !.type = "url", !.name = getPromptName(p),
                               !.url = addDefaultExtension(p)]
    ELSE IF IsAbsolutePath(p) THEN
        [NoParsedPrompt EXCEPT !.type = "local", !.name = getPromptName(p),
                               !.localPath = addDefaultExtension(p)]
    ELSE IF Includes(p, ":") THEN parseShorthand(p)
    ELSE [NoParsedPrompt EXCEPT !.type = "installed", !.name = p]

\* The addresses handed to the parser: a head, a stem and a tail.
Heads ==
    { <<>>, McpDot, <<"h", "t", "t", "p", ":", "/", "/">>, <<"h", "t", "t", "p", "s", ":", "/", "/">>, <<"/">>, <<"C", ":", "\\">>, <<"C", ":", "/">>,
      <<"a", "d", "o", ":">>, <<"g", "h", ":">>, <<"x", "x", ":">> }

SegmentNames == <<"a", "b", "c", "d", "e", "f", "g", "h">>

\* a, a/b, a/b/c, ...
PlainPath(k) == Join([i \in 1..k |-> <<SegmentNames[i]>>], <<"/">>)

\* Nothing, the plain paths, dotted names, and paths with a ':' or a '\' in
\* their last part.
Stems ==
    { PlainPath(k) : k \in 0..MaxPathParts }
      \cup { <<"a", ".", "b">>, <<".">>, <<"a", "/", "b", "/", "c", "/", "d", "/", "e", ":", "f">>, <<"a", "/", "b", "/", "c", "/", "d", "\\", "e">>, <<"a", "/", "b", "/", "c", "/", "d", ".", "e">> }

\* No extension, the recognized ones, an unrecognized one, and a name that
\* holds the default extension twice.
Tails ==
    Extensions \cup { <<>>, <<".", "x", "y", "z">>, <<".", "p", "r", "o", "m", "p", "t", ".", "m", "d", "x", ".", "p", "r", "o", "m", "p", "t", ".", "m", "d">> }

Addresses == { h \o m \o t : h \in Heads, m \in Stems, t \in Tails }

\* One call of parsePrompt(address).
ParsePrompt ==
    /\ parseResult = <<>>
    /\ parseResult' = <<parsePrompt(address)>>
    /\ UNCHANGED <<address, promptName, withExtension>>
    /\ UNCHANGED <<verInstalled, verRequired, compared, sufficient>>
    /\ UNCHANGED <<ivars, fvars, cvars, evars, ovars>>

\* One call of getPromptName(address).
GetPromptName ==
    /\ promptName = <<>>
    /\ promptName' = <<getPromptName(address)>>
    /\ UNCHANGED <<address, parseResult, withExtension>>
    /\ UNCHANGED <<verInstalled, verRequired, compared, sufficient>>
    /\ UNCHANGED <<ivars, fvars, cvars, evars, ovars>>

\* addDefaultExtension, called with the address and then with its own result.
AddDefaultExtension ==
    /\ Len(withExtension) < 2
    /\ withExtension' =
          Append(withExtension,
                 addDefaultExtension(IF withExtension = <<>> THEN address
                                     ELSE withExtension[1]))
    /\ UNCHANGED <<address, parseResult, promptName>>
    /\ UNCHANGED <<verInstalled, verRequired, compared, sufficient>>
    /\ UNCHANGED <<ivars, fvars, cvars, evars, ovars>>

\* ------------------------------------------------------ command handler

HexDigits == Digits \cup {"A", "B", "C", "D", "E", "F"}

\* The characters of the escapes that the parameters use.
Unescaped(hi, lo) ==
    CASE hi = "7" /\ lo = "B" -> "{"
      [] hi = "7" /\ lo = "D" -> "}"
      [] hi = "5" /\ lo = "B" -> "["
      [] hi = "5" /\ lo = "D" -> "]"
      [] hi = "3" /\ lo = "A" -> ":"
      [] OTHER -> " "

\* decodeURIComponent(s): every %XY is replaced by its character; a '%'
\* that is not followed by two hex digits raises a URIError.
RECURSIVE decodeURIComponent(_)
decodeURIComponent(s) ==
    IF s = <<>> THEN [ok |-> TRUE, text |-> <<>>]
    ELSE IF s[1] # "%" THEN
        LET rest == decodeURIComponent(Tail(s))
        IN  [ok |-> rest.ok, text |-> <<s[1]>> \o rest.text]
    ELSE IF Len(s) < 3 \/ s[2] \notin HexDigits \/ s[3] \notin HexDigits
    THEN [ok |-> FALSE, text |-> <<>>]
    ELSE LET rest == decodeURIComponent(SubSeq(s, 4, Len(s)))
         IN  [ok |-> rest.ok, text |-> <<Unescaped(s[2], s[3])>> \o rest.text]

\* The number of elements of an array whose elements are empty objects
\* and numbers.
ArrayLength(t) == Cardinality({ i \in 1..Len(t) : t[i] \in {"{", "1"} })

\* A variant that takes whatever is not a list or an object for no servers.
parseMcpParameter_Lenient(mcpParam) ==
    LET decoded == decodeURIComponent(mcpParam)
        kind == IF decoded.ok THEN JsonParse(decoded.text) ELSE "syntaxError"
    IN  IF kind = "array"
        THEN [ok |-> TRUE, length |-> ArrayLength(decoded.text)]
        ELSE IF kind = "object" THEN [ok |-> TRUE, length |-> 1]
        ELSE [ok |-> TRUE, length |-> 0]

\* McpInstaller.parseMcpParameter: whether it returns, and the length of
\* the list it returns.
parseMcpParameter(mcpParam) ==
    LET decoded == decodeURIComponent(mcpParam)
        kind == IF decoded.ok THEN JsonParse(decoded.text) ELSE "syntaxError"
    IN  IF kind \notin {"object", "array"} THEN [ok |-> FALSE, length |-> 0]
        ELSE IF kind # "array" THEN [ok |-> TRUE, length |-> 1]
        ELSE [ok |-> TRUE, length |-> ArrayLength(decoded.text)]

Select == <<"s", "e", "l", "e", "c", "t">>

\* parseWorkspaceParameter: the type of the WorkspaceConfig it returns, or
\* "error" when it throws.
parseWorkspaceParameter(workspace) ==
    IF workspace = <<>> THEN "current"
    ELSE IF workspace = Select THEN "select"
    ELSE IF StartsWith(workspace, Select \o <<":">>) THEN
        IF decodeURIComponent(SubSeq(workspace, 8, Len(workspace))).ok
        THEN "select" ELSE "error"
    ELSE "error"

\* The prompt parameter: an installed name, a service prompt with and
\* without its prompt name, a repository address with a known and with an
\* unknown tag, a local path and a URL.
RequestPrompts ==
    { <<"a">>,
      <<"m", "c", "p", ".", "a", ".", "b">>,
      <<"m", "c", "p", ".", "a">>,
      <<"g", "h", ":", "a", "/", "b", "/", "c">>,
      <<"x", "x", ":", "a", "/", "b", "/", "c">>,
      <<"/", "a">>,
      <<"h", "t", "t", "p", "s", ":", "/", "/", "a">> }

\* The mcp parameter: none, an empty list, a list of one and of two
\* descriptors, one descriptor, the same escaped, a number, a text that is
\* not JSON, and a broken escape.
McpParams ==
    { <<>>,
      <<"[", "]">>,
      <<"[", "{", "}", "]">>,
      <<"[", "{", "}", ",", "{", "}", "]">>,
      <<"{", "}">>,
      <<"%", "7", "B", "%", "7", "D">>,
      <<"1">>,
      <<"x">>,
      <<"%", "7">> }

\* The workspace parameter: none, the picker with and without a message,
\* a message with a broken escape, and a value that is not a directive.
WorkspaceParams ==
    { <<>>,
      Select,
      <<"s", "e", "l", "e", "c", "t", ":", "m">>,
      <<"s", "e", "l", "e", "c", "t", ":", "%">>,
      <<"c", "u", "r", "r", "e", "n", "t">> }

Requests ==
    [ prompt : RequestPrompts, mcp : McpParams, workspace : WorkspaceParams ]

NoRequest == [prompt |-> <<>>, mcp |-> <<>>, workspace |-> <<>>]

\* The locals of the handler before it has computed any: parsedPrompt,
\* mcpServers.length, and the answer to the confirmation dialog.
NoHandled == [parsedPrompt |-> NoParsedPrompt, mcpServers |-> 0, result |-> ""]

\* What the first lines of the handler compute: parsedPrompt and
\* mcpServers, or the error of the first parser that throws.
ParseRequest(req) ==
    LET parsedPrompt == parsePrompt(req.prompt)
        list == IF req.mcp = <<>> THEN [ok |-> TRUE, length |-> 0]
                ELSE parseMcpParameter(req.mcp)
    IN  IF parsedPrompt.type = "error"
        THEN [fault |-> "parsePrompt", handled |-> NoHandled]
        ELSE IF ~list.ok
        THEN [fault |-> "parseMcpParameter",
              handled |-> [parsedPrompt |-> parsedPrompt, mcpServers |-> 0,
                           result |-> ""]]
        ELSE [fault |-> "",
              handled |-> [parsedPrompt |-> parsedPrompt,
                           mcpServers |-> list.length, result |-> ""]]

\* The call that the type of the prompt selects.
AfterProvisioning(h) ==
    CASE h.parsedPrompt.type = "mcp" -> "getPrompt"
      [] h.parsedPrompt.type = "installed" -> "executePrompt"
      [] OTHER -> "fetchPrompt"

\* Where the progress block starts: at installServers when descriptors
\* were given, else at the call that the type of the prompt selects.
EnterProgress(h) ==
    IF h.mcpServers > 0 THEN "installServers" ELSE AfterProvisioning(h)

\* The handler calls `call` and goes on at `to`.
Calls(call, to) ==
    /\ elog' = Append(elog, call)
    /\ epc' = to
    /\ UNCHANGED efault

\* An error reaches the catch block: one error notification, and the
\* handler returns.
Caught(calls, kind) ==
    /\ elog' = elog \o calls \o <<"showErrorMessage">>
    /\ efault' = kind
    /\ epc' = "done"

\* The handler returns without an error.
Returns(calls) ==
    /\ elog' = elog \o calls
    /\ epc' = "done"
    /\ UNCHANGED efault

\* A faulty variant of Cancelled: the cancellation is raised as an error.
Cancelled_AsFault(calls) == Caught(calls \o <<"cancelled">>, "cancelled")

\* `return; // User cancelled`: the handler returns and no error is shown;
\* the log records the cancellation.
Cancelled(calls) == Returns(calls \o <<"cancelled">>)

\* What the quick pick offers: with a workspace open, the current one or a
\* different one; with none open, to select one or to go on without.
Offered(open) == IF open THEN {"current", "select"} ELSE {"select", "none"}

\* The user's answers to the quick pick and to the folder dialog.
WorkspaceAnswers ==
    { a \in [ open : BOOLEAN,
              pick : {"dismissed", "current", "select", "none"},
              folder : {"dismissed", "chosen"} ] :
        /\ a.pick \in Offered(a.open) \cup {"dismissed"}
        /\ (a.pick # "select") => a.folder = "dismissed" }

\* selectWorkspace: "null" when the user cancelled, "undefined" to go on
\* without a workspace, "path" for a folder to open.
selectWorkspace(a) ==
    CASE a.pick = "dismissed" -> "null"
      [] a.pick = "current" -> "path"
      [] a.pick = "none" -> "undefined"
      [] a.pick = "select" ->
           IF a.folder = "chosen" THEN "path" ELSE "null"

\* Entry: parsePrompt, parseMcpParameter, and the confirmation dialog is
\* shown.
ExecutePromptLogic ==
    /\ epc = "start"
    /\ LET parse == ParseRequest(request)
       IN  /\ handled' = parse.handled
           /\ IF parse.fault # ""
              THEN Caught(<<>>, parse.fault)
              ELSE Calls("showPromptConfirmation", "confirm")
    /\ UNCHANGED request
    /\ UNCHANGED <<ivars, fvars, cvars, pvars, ovars>>

\* What the modal dialog resolves to: the button, or undefined when it is
\* dismissed.
DialogResults == {"Yes", "undefined"}

\* showPromptConfirmation: result === 'Yes'.
showPromptConfirmation(result) == result = "Yes"

\* A faulty variant of Declined: the answer is not looked at.
Declined_Never(confirmed) == FALSE

\* if (!confirmed)
Declined(confirmed) == ~confirmed

\* The dialog is answered: anything but 'Yes' ends the request; after
\* 'Yes' the workspace parameter is parsed and the picker or the progress
\* block is entered.
ShowPromptConfirmation(result) ==
    /\ epc = "confirm"
    /\ handled' = [handled EXCEPT !.result = result]
    /\ LET confirmed == showPromptConfirmation(result)
           h == handled'
       IN  IF Declined(confirmed) THEN Cancelled(<<>>)
           ELSE IF request.workspace = <<>>
           THEN Calls("withProgress", EnterProgress(h))
           ELSE LET type == parseWorkspaceParameter(request.workspace)
                IN  IF type = "error"
                    THEN Caught(<<>>, "parseWorkspaceParameter")
                    ELSE IF type = "select"
                    THEN Calls("selectWorkspace", "select")
                    ELSE Calls("withProgress", EnterProgress(h))
    /\ UNCHANGED request
    /\ UNCHANGED <<ivars, fvars, cvars, pvars, ovars>>

\* selectWorkspace returns null (cancelled), undefined (no workspace
\* context) or a path.
SelectWorkspace(answers) ==
    /\ epc = "select"
    /\ LET selected == selectWorkspace(answers)
       IN  CASE selected = "null" -> Cancelled(<<>>)
             [] selected = "undefined" ->
                  Calls("withProgress", EnterProgress(handled))
             [] selected = "path" ->
                  Calls("openWorkspaceAndExecute", "open")
    /\ UNCHANGED <<request, handled>>
    /\ UNCHANGED <<ivars, fvars, cvars, pvars, ovars>>

\* openWorkspaceAndExecute opens the folder and hands the URI on, or shows
\* an error notification of its own and throws.
OpenWorkspaceAndExecute(ok) ==
    /\ epc = "open"
    /\ IF ok THEN Returns(<<>>)
       ELSE Caught(<<"showErrorMessage">>, "openWorkspaceAndExecute")
    /\ UNCHANGED <<request, handled>>
    /\ UNCHANGED <<ivars, fvars, cvars, pvars, ovars>>

\* installServers returns true or false, or throws.
InstallServers(outcome) ==
    /\ epc = "installServers"
    /\ CASE outcome = "true" ->
              Calls("installServers", AfterProvisioning(handled))
         [] outcome = "false" -> Cancelled(<<"installServers">>)
         [] outcome = "throws" ->
              Caught(<<"installServers">>, "installServers")
    /\ UNCHANGED <<request, handled>>
    /\ UNCHANGED <<ivars, fvars, cvars, pvars, ovars>>

\* mcpClient.getPrompt returns the content or throws.
FetchMcpPrompt(ok) ==
    /\ epc = "getPrompt"
    /\ IF ok THEN Calls("getPrompt", "executeCopilotChatCommand")
       ELSE Caught(<<"getPrompt">>, "getPrompt")
    /\ UNCHANGED <<request, handled>>
    /\ UNCHANGED <<ivars, fvars, cvars, pvars, ovars>>

\* promptFetcher.fetchPrompt returns or throws.
FetchFilePrompt(ok) ==
    /\ epc = "fetchPrompt"
    /\ IF ok THEN Calls("fetchPrompt", "executePrompt")
       ELSE Caught(<<"fetchPrompt">>, "fetchPrompt")
    /\ UNCHANGED <<request, handled>>
    /\ UNCHANGED <<ivars, fvars, cvars, pvars, ovars>>

\* copilotExecutor.executePrompt or executeCopilotChatCommand returns or
\* throws.
Dispatch(ok) ==
    /\ epc \in {"executePrompt", "executeCopilotChatCommand"}
    /\ IF ok THEN Returns(<<epc>>) ELSE Caught(<<epc>>, epc)
    /\ UNCHANGED <<request, handled>>
    /\ UNCHANGED <<ivars, fvars, cvars, pvars, ovars>>

\* ------------------------------------------ remote prompt session: list

\* What the list request may do: answer with the prompts the service
\* offers, or throw.
ListOutcomes ==
    { [ok |-> TRUE, prompts |-> l] : l \in SeqsUpTo(PromptNames, 2) }
    \cup { [ok |-> FALSE, prompts |-> <<>>] }

\* listPrompts' try block: the names it returns or the error its catch
\* block throws.
ListResult(outcome) ==
    IF outcome.ok
    THEN [kind |-> "names", msg |-> outcome.prompts]
    ELSE CError("ListFailed",
                <<"Failed to list prompts from MCP server: ", "rpc error">>)

\* listPrompts up to `await this.createClient(serverConfig.name,
\* serverConfig)`; an error of createClient leaves listPrompts as it is.
ListPrompts ==
    /\ cpc = "listPrompts"
    /\ cpc' = "createClient"
    /\ UNCHANGED <<mcpPromptName, input, mcpServers, serverConfig, promptArgs,
                   transport, pending, cresult, cvalue, clog>>
    /\ UNCHANGED <<ivars, fvars, pvars, evars, ovars>>

\* createClient has returned the connected client (cpc = "render"):
\* `await client.listPrompts()`, the try and catch blocks, and the finally
\* block, which calls client.close() without awaiting it, logs the
\* connection as closed and lets the names be returned or the error be
\* thrown.
ClientListPrompts ==
    /\ cpc = "render"
    /\ \E outcome \in ListOutcomes :
          LET final == ListResult(outcome) IN
          /\ CLogged(<<CEvent("list", outcome), CEvent("closeCalled", Absent),
                       CEvent("closedLogged", Absent)>>)
          /\ cresult' = IF final.kind = "names" THEN "returns" ELSE "throws"
          /\ cvalue' = final
    /\ closing' = "inFlight"
    /\ cpc' = "done"
    /\ UNCHANGED <<mcpPromptName, input, mcpServers, serverConfig, promptArgs,
                   transport, pending>>
    /\ UNCHANGED <<ivars, fvars, pvars, evars, xvars, kvars>>

\* The promise of client.close() is settled; nothing awaits it, and a
\* rejection reaches no catch block.
CloseSettles ==
    /\ closing = "inFlight"
    /\ \E outcome \in CloseOutcomes : closing' = outcome
    /\ UNCHANGED <<ivars, fvars, cvars, pvars, evars, xvars, kvars>>

\* -------------------------------------------------------- chat dispatch

\* CopilotExecutor.defaultCommandVariants.
defaultCommandVariants ==
    << "workbench.action.chat.openagent",
       "workbench.action.chat.openAgent",
       "workbench.action.chat.open" >>

\* What promptu.copilotChatCommand may hold: one of the variants, or a
\* command the user has set.
ChatCommands ==
    { defaultCommandVariants[i] : i \in DOMAIN defaultCommandVariants }
    \cup {"custom.chat.command"}

\* A faulty variant of SkipTried: the configured command is not skipped.
SkipTried_Never(i, current) == i

\* The head of the fallback loop: from position i on, the first variant
\* that is not the configured command; past the end when there is none.
RECURSIVE SkipTried(_, _)
SkipTried(i, current) ==
    IF i > Len(defaultCommandVariants) THEN i
    ELSE IF defaultCommandVariants[i] = current THEN SkipTried(i + 1, current)
    ELSE i

\* A command has failed: the loop goes on with the variant at position i,
\* and past the last variant the call throws.
TryFrom(i) ==
    LET j == SkipTried(i, chatCommand) IN
    /\ knext' = j
    /\ IF j > Len(defaultCommandVariants)
       THEN kpc' = "done" /\ kresult' = "throws"
       ELSE kpc' = "variant" /\ UNCHANGED kresult

\* executePrompt: the slash command it hands to executeCopilotChatCommand.
slashCommand(name, promptInput) ==
    IF promptInput # ""
    THEN <<"/", name, " ", promptInput>>
    ELSE <<"/", name>>

\* The contents dispatched: the slash command of an installed or stored
\* prompt, with and without input, and the text a service has rendered.
ChatContents ==
    { slashCommand("p1", ""), slashCommand("p1", "in"), <<"rendered">> }

\* One executeCommand call and how it ended.
Tried(command, ok) == [command |-> command, content |-> kcontent, ok |-> ok]

\* `await vscode.commands.executeCommand('workbench.action.chat.newChat')`:
\* a failure is logged and ignored.
NewChat(ok) ==
    /\ kpc = "newChat"
    /\ klog' = Append(klog, [command |-> "workbench.action.chat.newChat",
                             content |-> <<>>, ok |-> ok])
    /\ kpc' = "run"
    /\ UNCHANGED <<chatCommand, chatSetting, configured, kcontent, knext,
                   kresult>>
    /\ UNCHANGED <<ivars, fvars, cvars, pvars, evars, xvars, lvars>>

\* `await vscode.commands.executeCommand(this.chatCommand, content)`.
RunChatCommand(ok) ==
    /\ kpc = "run"
    /\ klog' = Append(klog, Tried(chatCommand, ok))
    /\ IF ok
       THEN kpc' = "done" /\ kresult' = "returns" /\ UNCHANGED knext
       ELSE TryFrom(1)
    /\ UNCHANGED <<chatCommand, chatSetting, configured, kcontent>>
    /\ UNCHANGED <<ivars, fvars, cvars, pvars, evars, xvars, lvars>>

\* The body of the fallback loop, `await vscode.commands.executeCommand(
\* command, content)`: after a success updateChatCommandSetting sets
\* this.chatCommand and starts the update of the setting.
TryVariant(ok) ==
    /\ kpc = "variant"
    /\ LET command == defaultCommandVariants[knext] IN
       /\ klog' = Append(klog, Tried(command, ok))
       /\ IF ok
          THEN /\ chatCommand' = command
               /\ kpc' = "update"
               /\ UNCHANGED <<knext, kresult>>
          ELSE /\ TryFrom(knext + 1)
               /\ UNCHANGED chatCommand
    /\ UNCHANGED <<chatSetting, configured, kcontent>>
    /\ UNCHANGED <<ivars, fvars, cvars, pvars, evars, xvars, lvars>>

\* updateChatCommandSetting, `await config.update(...)`: a failure is
\* shown and not thrown; the call returns.
UpdateChatCommandSetting(ok) ==
    /\ kpc = "update"
    /\ chatSetting' = IF ok THEN chatCommand ELSE chatSetting
    /\ kpc' = "done"
    /\ kresult' = "returns"
    /\ UNCHANGED <<chatCommand, configured, kcontent, knext, klog>>
    /\ UNCHANGED <<ivars, fvars, cvars, pvars, evars, xvars, lvars>>

\* ---------------------------------------------------- external processes

\* PromptFetcher.fetchTimeout, 60000 ms, in units of 30 seconds.
fetchTimeout == 2

\* spawn without a timeout option: the process is never killed.
NoTimeout == 0

\* The clock of the model stops one unit after the timeout.
MaxElapsed == fetchTimeout + 1

\* The options of the spawn call: executeGitCommand sets
\* timeout: PromptFetcher.fetchTimeout, executeDotnetCommand sets none.
SpawnOptions(command) ==
    IF command = "git" THEN [timeout |-> fetchTimeout]
    ELSE [timeout |-> NoTimeout]

\* The spawn calls of the code: git clone, dotnet tool list, dotnet tool
\* install.
SpawnCalls ==
    { [command |-> "git", subcommand |-> "clone"],
      [command |-> "dotnet", subcommand |-> "list"],
      [command |-> "dotnet", subcommand |-> "install"] }

NoSpawn == [command |-> "", subcommand |-> "", timeout |-> NoTimeout]

\* The promise before any handler has run.
Pending == [kind |-> "pending", exitCode |-> 0]

\* The 'close' and 'error' handlers: how the promise is settled for a
\* process that ended as `outcome`.
Settle(command, outcome) ==
    IF command = "git"
    THEN IF outcome = "spawnError" THEN [kind |-> "reject", exitCode |-> 1]
         ELSE IF GitSucceeded(outcome) THEN [kind |-> "resolve", exitCode |-> 0]
         ELSE [kind |-> "reject", exitCode |-> 1]
    ELSE [kind |-> "resolve", exitCode |-> DotnetExitCode(outcome)]

\* The process has ended as `outcome` and its handler has run; `state`
\* keeps who ended it.
Ended(state, outcome) ==
    /\ childState' = state
    /\ settled' = Settle(spawned.command, outcome)
    /\ UNCHANGED <<spawned, elapsed, stderr>>

\* The process writes to its error stream: stderr += data.toString().
OnData ==
    /\ childState = "running"
    /\ Len(stderr) < MaxChunks
    /\ stderr' = Append(stderr, "data")
    /\ UNCHANGED <<spawned, childState, elapsed, settled>>
    /\ UNCHANGED <<ivars, fvars, cvars, pvars, evars, lvars, kvars>>

\* The process exits by itself with code 0 or with another code, or is
\* killed from outside by a signal: 'close'.
OnClose(outcome) ==
    /\ childState = "running"
    /\ Ended(outcome, outcome)
    /\ UNCHANGED <<ivars, fvars, cvars, pvars, evars, lvars, kvars>>

\* The process could not be started: 'error'.
OnError ==
    /\ childState = "running"
    /\ elapsed = 0
    /\ Ended("spawnError", "spawnError")
    /\ UNCHANGED <<ivars, fvars, cvars, pvars, evars, lvars, kvars>>

\* The timeout of the spawn call has elapsed: the runtime kills the
\* process, which closes without an exit code.
KillAtTimeout ==
    /\ childState = "running"
    /\ spawned.timeout # NoTimeout
    /\ elapsed = spawned.timeout
    /\ Ended("killed", "signal")
    /\ UNCHANGED <<ivars, fvars, cvars, pvars, evars, lvars, kvars>>

\* Time passes while the promise is pending; it cannot pass the moment at
\* which the runtime kills the process.
Elapse ==
    /\ settled = Pending
    /\ elapsed < MaxElapsed
    /\ (spawned.timeout # NoTimeout) => elapsed < spawned.timeout
    /\ elapsed' = elapsed + 1
    /\ UNCHANGED <<spawned, childState, stderr, settled>>
    /\ UNCHANGED <<ivars, fvars, cvars, pvars, evars, lvars, kvars>>

\* ------------------------------------------------------- specifications

InitInstaller ==
    /\ mcpFile \in InitialFiles
    /\ active = {"b1"}
    /\ \E list \in SeqsUpTo(Descriptors, MaxServers) :
          servers = [b \in BatchIds |-> IF b \in active THEN list ELSE <<>>]
    /\ ipc = [b \in BatchIds |-> IF b \in active THEN "start" ELSE "idle"]
    /\ idx = [b \in BatchIds |-> 1]
    /\ config = [b \in BatchIds |-> EmptyConfig]
    /\ needsConfigWrite = [b \in BatchIds |-> FALSE]
    /\ iresult = [b \in BatchIds |-> "pending"]
    /\ fileAtStart = [b \in BatchIds |-> mcpFile]
    /\ ilog = [b \in BatchIds |-> <<>>]

NextInstaller ==
    \/ \E b \in active : ReadMcpConfig(b)
    \/ \E b \in active : NextServer(b)
    \/ \E b \in active : GetNuGetPackageVersion(b)
    \/ \E b \in active : ConfirmNuGet(b)
    \/ \E b \in active : InstallNuGetGlobalTool(b)
    \/ \E b \in active : ConfirmServerConfig(b)
    \/ \E b \in active : WriteMcpConfig(b)

\* No provisioning batch runs.
InstallerIdle ==
    /\ mcpFile = NoFile
    /\ active = {}
    /\ servers = [b \in BatchIds |-> <<>>]
    /\ ipc = [b \in BatchIds |-> "idle"]
    /\ idx = [b \in BatchIds |-> 1]
    /\ config = [b \in BatchIds |-> EmptyConfig]
    /\ needsConfigWrite = [b \in BatchIds |-> FALSE]
    /\ iresult = [b \in BatchIds |-> "pending"]
    /\ fileAtStart = [b \in BatchIds |-> mcpFile]
    /\ ilog = [b \in BatchIds |-> <<>>]

\* The retrieval variables before any retrieval has started; `reqs` are the
\* retrievals of the run.
InitFetcherWith(reqs) ==
    /\ now = 0
    /\ factive = reqs
    /\ fpc = [r \in ReqIds |-> IF r \in reqs THEN "start" ELSE "idle"]
    /\ headers = [r \in ReqIds |-> NoHeaders]
    /\ content = [r \in ReqIds |-> NoContent]
    /\ tempDir = [r \in ReqIds |-> NoDir]
    /\ fresult = [r \in ReqIds |-> "pending"]
    /\ ferror = [r \in ReqIds |-> NoError]
    /\ caught = [r \in ReqIds |-> NoError]
    /\ flog = [r \in ReqIds |-> <<>>]
    /\ notifications = 0
    /\ tmpDirs = EmptyMap
    /\ retrievals = Cardinality(reqs)
    /\ last = EmptyMap

FetcherIdle ==
    /\ InitFetcherWith({})
    /\ prompt = [r \in ReqIds |-> [type |-> "installed", name |-> "p1"]]
    /\ storage = EmptyMap
    /\ locations = {}
    /\ localFile = NoContent

InitFetcher ==
    /\ InitFetcherWith({"r1"})
    /\ \E p \in ParsedPrompts :
          prompt = [r \in ReqIds |-> IF r \in factive THEN p
                                     ELSE [type |-> "installed", name |-> "p1"]]
    /\ storage \in {EmptyMap, ("p1" :> OldContent)}
    /\ locations \in {{"otherDir"}, {"otherDir", OurDir}}
    /\ localFile \in {NoContent, <<"text">>}

NextFetcher ==
    \/ Tick
    \/ \E r \in factive : FetchPrompt(r)
    \/ \E r \in factive : GetADOAuthHeaders(r)
    \/ \E r \in factive : FetchViaHttp(r)
    \/ \E r \in factive : StoreContent(r)
    \/ \E r \in factive : StoreLocal(r)
    \/ \E r \in factive : GitClone(r)
    \/ \E r \in factive : CopyFromClone(r)

\* No remote prompt session runs.
ClientIdle ==
    /\ mcpPromptName = <<>>
    /\ input = NoInput
    /\ mcpServers = [defined |-> FALSE, list |-> <<>>]
    /\ cpc = "idle"
    /\ serverConfig = NoConfig
    /\ promptArgs = EmptyObject
    /\ transport = NoTransport
    /\ pending = NoValue
    /\ cresult = "pending"
    /\ cvalue = NoValue
    /\ clog = <<>>

InitClient ==
    /\ mcpPromptName \in McpPromptNames
    /\ input \in Inputs
    /\ mcpServers \in McpServerLists
    /\ cpc = "start"
    /\ serverConfig = NoConfig
    /\ promptArgs = EmptyObject
    /\ transport = NoTransport
    /\ pending = NoValue
    /\ cresult = "pending"
    /\ cvalue = NoValue
    /\ clog = <<>>

NextClient ==
    \/ GetPrompt
    \/ CreateClient
    \/ Discover
    \/ GetSession
    \/ Connect
    \/ Render
    \/ Close

\* No pure function is being applied.
VersionIdle ==
    /\ verInstalled = NoVersion
    /\ verRequired = NoVersion
    /\ compared = FALSE
    /\ sufficient = FALSE

ParserIdle ==
    /\ address = <<>>
    /\ parseResult = <<>>
    /\ promptName = <<>>
    /\ withExtension = <<>>

PureIdle == VersionIdle /\ ParserIdle

\* No command is being handled.
HandlerIdle ==
    /\ epc = "idle"
    /\ request = NoRequest
    /\ handled = NoHandled
    /\ efault = ""
    /\ elog = <<>>

\* No external process is awaited.
ProcessIdle ==
    /\ spawned = NoSpawn
    /\ childState = "none"
    /\ elapsed = 0
    /\ stderr = <<>>
    /\ settled = Pending

\* No close is in flight.
ListIdle == closing = "none"

\* No content is being dispatched.
ChatIdle ==
    /\ chatCommand = defaultCommandVariants[1]
    /\ chatSetting = defaultCommandVariants[1]
    /\ configured = defaultCommandVariants[1]
    /\ kcontent = <<>>
    /\ kpc = "idle"
    /\ knext = 1
    /\ kresult = "pending"
    /\ klog = <<>>

OperationsIdle == ProcessIdle /\ ListIdle /\ ChatIdle

InitHandler ==
    /\ epc = "start"
    /\ request \in Requests
    /\ handled = NoHandled
    /\ efault = ""
    /\ elog = <<>>
    /\ PureIdle /\ OperationsIdle
    /\ InstallerIdle /\ FetcherIdle /\ ClientIdle

NextHandler ==
    \/ ExecutePromptLogic
    \/ \E result \in DialogResults : ShowPromptConfirmation(result)
    \/ \E answers \in WorkspaceAnswers : SelectWorkspace(answers)
    \/ \E ok \in BOOLEAN : OpenWorkspaceAndExecute(ok)
    \/ \E outcome \in {"true", "false", "throws"} : InstallServers(outcome)
    \/ \E ok \in BOOLEAN : FetchMcpPrompt(ok)
    \/ \E ok \in BOOLEAN : FetchFilePrompt(ok)
    \/ \E ok \in BOOLEAN : Dispatch(ok)

SpecHandler == InitHandler /\ [][NextHandler]_vars

Others == PureIdle /\ HandlerIdle /\ OperationsIdle

\* A process has been spawned by one of the spawn calls of the code.
InitProcess ==
    /\ \E call \in SpawnCalls :
          spawned = [command |-> call.command, subcommand |-> call.subcommand,
                     timeout |-> SpawnOptions(call.command).timeout]
    /\ childState = "running"
    /\ elapsed = 0
    /\ stderr = <<>>
    /\ settled = Pending
    /\ ListIdle /\ ChatIdle
    /\ PureIdle /\ HandlerIdle
    /\ InstallerIdle /\ FetcherIdle /\ ClientIdle

NextProcess ==
    \/ OnData
    \/ \E outcome \in {"exit0", "exit1", "signal"} : OnClose(outcome)
    \/ OnError
    \/ KillAtTimeout
    \/ Elapse

SpecProcess == InitProcess /\ [][NextProcess]_vars

\* listPrompts is called with a descriptor.
InitList ==
    /\ mcpPromptName = <<>>
    /\ input = NoInput
    /\ mcpServers = [defined |-> FALSE, list |-> <<>>]
    /\ cpc = "listPrompts"
    /\ serverConfig \in ClientConfigs
    /\ promptArgs = EmptyObject
    /\ transport = NoTransport
    /\ pending = NoValue
    /\ cresult = "pending"
    /\ cvalue = NoValue
    /\ clog = <<>>
    /\ closing = "none"
    /\ InstallerIdle /\ FetcherIdle
    /\ PureIdle /\ HandlerIdle /\ ProcessIdle /\ ChatIdle

NextList ==
    \/ ListPrompts
    \/ CreateClient
    \/ Discover
    \/ GetSession
    \/ Connect
    \/ ClientListPrompts
    \/ CloseSettles

SpecList == InitList /\ [][NextList]_vars

\* executeCopilotChatCommand is called; the constructor has read
\* this.chatCommand from the setting.
InitChat ==
    /\ chatCommand \in ChatCommands
    /\ chatSetting = chatCommand
    /\ configured = chatCommand
    /\ kcontent \in ChatContents
    /\ kpc = "newChat"
    /\ knext = 1
    /\ kresult = "pending"
    /\ klog = <<>>
    /\ ProcessIdle /\ ListIdle
    /\ PureIdle /\ HandlerIdle
    /\ InstallerIdle /\ FetcherIdle /\ ClientIdle

NextChat ==
    \/ \E ok \in BOOLEAN : NewChat(ok)
    \/ \E ok \in BOOLEAN : RunChatCommand(ok)
    \/ \E ok \in BOOLEAN : TryVariant(ok)
    \/ \E ok \in BOOLEAN : UpdateChatCommandSetting(ok)

SpecChat == InitChat /\ [][NextChat]_vars

InitVersion ==
    /\ verInstalled \in Versions
    /\ verRequired \in Versions
    /\ compared = FALSE
    /\ sufficient = FALSE
    /\ ParserIdle /\ HandlerIdle /\ OperationsIdle
    /\ InstallerIdle /\ FetcherIdle /\ ClientIdle

NextVersion == IsVersionSufficient

SpecVersion == InitVersion /\ [][NextVersion]_vars

InitParse ==
    /\ address \in Addresses
    /\ parseResult = <<>>
    /\ promptName = <<>>
    /\ withExtension = <<>>
    /\ VersionIdle /\ HandlerIdle /\ OperationsIdle
    /\ InstallerIdle /\ FetcherIdle /\ ClientIdle

NextParse ==
    \/ ParsePrompt
    \/ GetPromptName
    \/ AddDefaultExtension

SpecParse == InitParse /\ [][NextParse]_vars

InitSession == InitClient /\ InstallerIdle /\ FetcherIdle /\ Others

\* One call of McpClient.getPrompt.
SpecSession == InitSession /\ [][NextClient]_vars

InitInstall == InitInstaller /\ FetcherIdle /\ ClientIdle /\ Others

\* One provisioning batch.
SpecInstall == InitInstall /\ [][NextInstaller]_vars

InitFetch == InitFetcher /\ InstallerIdle /\ ClientIdle /\ Others

\* One retrieval.
SpecFetch == InitFetch /\ [][NextFetcher]_vars

NextRetrievals ==
    \/ \E r \in factive : FetchPrompt(r)
    \/ \E r \in factive : GetADOAuthHeaders(r)
    \/ \E r \in factive : FetchViaHttp(r)
    \/ \E r \in factive : StoreContent(r)
    \/ \E r \in factive : StoreLocal(r)
    \/ \E r \in factive : GitClone(r)
    \/ \E r \in factive : CopyFromClone(r)
    \/ \E r \in factive : NextRetrieval(r)

\* The first retrieval finds a file of an earlier run in storage and the
\* local source file in place.
InitRetrievals ==
    /\ InitFetcher
    /\ storage = ("p1" :> OldContent)
    /\ localFile = <<"text">>
    /\ InstallerIdle
    /\ ClientIdle
    /\ Others

\* Retrievals one after the other, against the same storage and settings.
SpecRetrievals == InitRetrievals /\ [][NextRetrievals]_vars

\* Two batches started together, one descriptor each, under different
\* names.
InitBatches ==
    /\ mcpFile \in InitialFiles
    /\ active = BatchIds
    /\ \E d1, d2 \in Descriptors :
          /\ d1.name = "srvA"
          /\ d2.name = "srvB"
          /\ servers = [b \in BatchIds |-> IF b = "b1" THEN <<d1>> ELSE <<d2>>]
    /\ ipc = [b \in BatchIds |-> "start"]
    /\ idx = [b \in BatchIds |-> 1]
    /\ config = [b \in BatchIds |-> EmptyConfig]
    /\ needsConfigWrite = [b \in BatchIds |-> FALSE]
    /\ iresult = [b \in BatchIds |-> "pending"]
    /\ fileAtStart = [b \in BatchIds |-> mcpFile]
    /\ ilog = [b \in BatchIds |-> <<>>]
    /\ FetcherIdle
    /\ ClientIdle
    /\ Others

\* Provisioning batches in flight at the same time, their steps interleaved
\* at the suspension points.
SpecBatches == InitBatches /\ [][NextInstaller]_vars

\* Two retrievals of repository addresses under different names, started
\* together against an empty storage.
InitClones ==
    /\ InitFetcherWith(ReqIds)
    /\ prompt = [r \in ReqIds |->
                   [type |-> "github", name |-> IF r = "r1" THEN "p1" ELSE "p2"]]
    /\ storage = EmptyMap
    /\ locations = {"otherDir", OurDir}
    /\ localFile = NoContent
    /\ InstallerIdle
    /\ ClientIdle
    /\ Others

NextClones ==
    \/ Tick
    \/ \E r \in factive : FetchPrompt(r)
    \/ \E r \in factive : FetchViaHttp(r)
    \/ \E r \in factive : StoreContent(r)
    \/ \E r \in factive : GitClone(r)
    \/ \E r \in factive : CopyFromClone(r)

\* Retrievals in flight at the same time, their steps interleaved at the
\* suspension points.
SpecClones == InitClones /\ [][NextClones]_vars

\* ------------------------------------------ claims on the provisioner

Log(b) == ilog[b]

HasEvent(b, e) == \E k \in 1..Len(Log(b)) : Log(b)[k].ev = e

HasEventAt(b, e, i) ==
    \E k \in 1..Len(Log(b)) : Log(b)[k].ev = e /\ Log(b)[k].i = i

IsPackage(d) == d.nugetPackage # Absent

\* The in-memory registry of batch b after the first k entries of its log:
\* the registry read at the start, with every recorded descriptor added.
RECURSIVE ConfigAt(_, _)
ConfigAt(b, k) ==
    IF k = 0 THEN readMcpConfig(fileAtStart[b])
    ELSE LET e == Log(b)[k] IN
         IF e.ev = "record"
         THEN addServerToConfig(ConfigAt(b, k - 1), servers[b][e.i])
         ELSE ConfigAt(b, k - 1)

\* C1: a declined confirmation for descriptor i makes installServers return
\* false at once: the decline is the last thing the batch does, no
\* descriptor after i is touched, the registry file is never written and is
\* what it was before the batch; and false is returned for no other reason.
C1_DeclineCancelsBatch ==
    \A b \in active :
        /\ \A k \in 1..Len(Log(b)) :
              Log(b)[k].ev = "decline" =>
                 /\ k = Len(Log(b))
                 /\ iresult[b] = "false"
                 /\ ipc[b] = "done"
                 /\ idx[b] = Log(b)[k].i
                 /\ \A j \in 1..Len(Log(b)) : Log(b)[j].i <= Log(b)[k].i
                 /\ ~HasEvent(b, "write")
                 /\ mcpFile = fileAtStart[b]
        /\ iresult[b] = "false" => HasEvent(b, "decline")

\* C1 (witness): the second descriptor is declined after the first was
\* accepted and recorded in memory, so memory and file differ.
C1_Witness ==
    \E b \in active :
        /\ iresult[b] = "false"
        /\ HasEventAt(b, "record", 1)
        /\ HasEventAt(b, "decline", 2)
        /\ config[b] # readMcpConfig(mcpFile)

\* C2: an install command that exits with a non-zero code makes
\* installServers throw: the failed install is the last thing the batch
\* does, no later descriptor is touched, and the registry file is what it was
\* before the batch, with none of the entries recorded earlier in it.
C2_InstallFailureAborts ==
    \A b \in active :
        \A k \in 1..Len(Log(b)) :
            (Log(b)[k].ev = "install" /\ Log(b)[k].x = "exit1") =>
                /\ k = Len(Log(b))
                /\ iresult[b] = "throws"
                /\ ipc[b] = "done"
                /\ idx[b] = Log(b)[k].i
                /\ \A j \in 1..Len(Log(b)) : Log(b)[j].i <= Log(b)[k].i
                /\ ~HasEvent(b, "write")
                /\ mcpFile = fileAtStart[b]

\* C2 (witness): the install of the second descriptor exits non-zero after
\* the first descriptor was recorded in memory.
C2_Witness ==
    \E b \in active :
        /\ iresult[b] = "throws"
        /\ HasEventAt(b, "record", 1)
        /\ \E k \in 1..Len(Log(b)) :
              Log(b)[k].ev = "install" /\ Log(b)[k].i = 2 /\ Log(b)[k].x = "exit1"
        /\ config[b] # readMcpConfig(mcpFile)

\* C3: the registry file is written at most once per batch, as the last
\* step and after the last descriptor; a batch that returns true has written
\* it exactly when some descriptor was recorded in memory, and a batch that
\* was cancelled or failed, or is still running, has not written it.
C3_WriteOnceAtEnd ==
    \A b \in active :
        /\ \A k \in 1..Len(Log(b)) :
              Log(b)[k].ev = "write" =>
                 /\ k = Len(Log(b))
                 /\ Log(b)[k].i = Len(servers[b]) + 1
                 /\ iresult[b] = "true"
                 /\ mcpFile = config[b]
        /\ iresult[b] = "true" => (HasEvent(b, "write") <=> HasEvent(b, "record"))
        /\ iresult[b] # "true" => (~HasEvent(b, "write") /\ mcpFile = fileAtStart[b])
        /\ ~HasEvent(b, "write") => mcpFile = fileAtStart[b]

\* C3 (witness): a batch of two descriptors recorded the first, skipped the
\* second and wrote the file once.
C3_Witness ==
    \E b \in active :
        /\ iresult[b] = "true"
        /\ HasEventAt(b, "record", 1)
        /\ HasEventAt(b, "skip", 2)
        /\ HasEvent(b, "write")
        /\ mcpFile # fileAtStart[b]

\* The reported version x is installed and sufficient for descriptor d.
Sufficient(x, d) == x # NoVersion /\ isVersionSufficient(x, d.version)

\* C4: for a package descriptor with a required version, a reported version
\* that is sufficient skips the descriptor: no confirmation, no install, no
\* change of the in-memory registry, and the loop moves on.  In every other
\* case (no version required, nothing installed, an insufficient version) the
\* confirmation is requested, and no install runs without it.
C4_SufficientVersionSkips ==
    \A b \in active :
        /\ (ipc[b] # "start" /\ ~HasEvent(b, "readFailed"))
              => config[b] = ConfigAt(b, Len(Log(b)))
        /\ \A k \in 1..Len(Log(b)) :
            LET e == Log(b)[k]
                d == servers[b][e.i]
            IN  /\ e.ev = "query" =>
                      /\ IsPackage(d) /\ d.version # NoVersion
                      /\ IF Sufficient(e.x, d)
                         THEN /\ k < Len(Log(b))
                              /\ Log(b)[k + 1] = Event("skip", e.i)
                              /\ ~HasEventAt(b, "confirm", e.i)
                              /\ ~HasEventAt(b, "install", e.i)
                              /\ ~HasEventAt(b, "record", e.i)
                              /\ idx[b] > e.i
                         ELSE \/ k = Len(Log(b)) /\ ipc[b] = "confirmNuGet"
                              \/ /\ k < Len(Log(b))
                                 /\ Log(b)[k + 1] = Event("confirm", e.i)
                /\ (e.ev = "skip" /\ IsPackage(d)) =>
                      /\ k > 1
                      /\ Log(b)[k - 1].ev = "query"
                      /\ Log(b)[k - 1].i = e.i
                      /\ Sufficient(Log(b)[k - 1].x, d)
                /\ e.ev = "install" =>
                      k > 1 /\ Log(b)[k - 1] = Event("confirm", e.i)
        /\ \A i \in 1..Len(servers[b]) :
            LET d == servers[b][i] IN
            (IsPackage(d) /\ d.version = NoVersion) =>
                /\ ~HasEventAt(b, "query", i)
                /\ ~HasEventAt(b, "skip", i)
                /\ idx[b] > i => HasEventAt(b, "confirm", i)

\* C4 (witness): the first descriptor was skipped on a sufficient installed
\* version and the batch went on to ask about the second.
C4_Witness ==
    \E b \in active :
        /\ Len(Log(b)) >= 3
        /\ Log(b)[1].ev = "query"
        /\ Sufficient(Log(b)[1].x, servers[b][1])
        /\ Log(b)[2] = Event("skip", 1)
        /\ Log(b)[3] = Event("confirm", 2)
        /\ config[b] = readMcpConfig(fileAtStart[b])

\* C5: a config-only descriptor is skipped, with no confirmation and no
\* change, exactly when the in-memory registry already has an entry under
\* its name; otherwise the user is asked, a decline cancels the batch and an
\* accept records the descriptor's transport under its name; so one name is
\* confirmed and recorded at most once among config-only descriptors.
C5_ConfigOnlySkipIffRegistered ==
    \A b \in active :
        /\ \A k \in 1..Len(Log(b)) :
            LET e == Log(b)[k]
                d == servers[b][e.i]
            IN  (e.i \in 1..Len(servers[b]) /\ ~IsPackage(d)) =>
                /\ e.ev = "skip" =>
                      /\ d.name \in DOMAIN ConfigAt(b, k).servers
                      /\ ~HasEventAt(b, "confirm", e.i)
                      /\ ConfigAt(b, k) = ConfigAt(b, k - 1)
                /\ e.ev = "confirm" =>
                      /\ d.name \notin DOMAIN ConfigAt(b, k).servers
                      /\ k < Len(Log(b))
                      /\ Log(b)[k + 1].i = e.i
                      /\ Log(b)[k + 1].ev \in {"decline", "record"}
                /\ e.ev = "decline" => iresult[b] = "false"
                /\ e.ev = "record" =>
                      /\ d.name \in DOMAIN ConfigAt(b, k).servers
                      /\ ConfigAt(b, k).servers[d.name] =
                            [type |-> d.type, command |-> d.command, url |-> d.url]
        /\ \A i, j \in 1..Len(servers[b]) :
            ( /\ i < j
              /\ ~IsPackage(servers[b][i])
              /\ ~IsPackage(servers[b][j])
              /\ servers[b][i].name = servers[b][j].name )
            => ~(HasEventAt(b, "confirm", i) /\ HasEventAt(b, "confirm", j))

\* The persisted registry has an entry of its own under `name`.
Registered(name) == mcpFile # NoFile /\ name \in DOMAIN mcpFile.servers

\* C35: when installServers has returned true, the persisted registry has
\* an entry under the name of every descriptor of the batch, skipped package
\* descriptors included.
C35_ReadyMeansRegistered ==
    \A b \in active :
        iresult[b] = "true" =>
            \A i \in 1..Len(servers[b]) : Registered(servers[b][i].name)

\* C35 (as the code has it): when installServers has returned true, the
\* persisted registry has an entry under the name of every descriptor that
\* the batch recorded; a descriptor without an entry was skipped, either as
\* a package whose installed version was sufficient or as a config-only
\* descriptor whose name the `in` test found among the inherited property
\* names.
C35_ReadyMeansRecordedRegistered ==
    \A b \in active :
        iresult[b] = "true" =>
            \A i \in 1..Len(servers[b]) :
                LET d == servers[b][i] IN
                /\ HasEventAt(b, "record", i) => Registered(d.name)
                /\ ~Registered(d.name) =>
                      /\ HasEventAt(b, "skip", i)
                      /\ IsPackage(d) \/ d.name \in ProtoKeys

\* C35 (witness): true was returned by a batch that skipped its first
\* descriptor, a package with a sufficient installed version and without an
\* entry, and recorded and wrote its second.
C35_Witness ==
    \E b \in active :
        /\ iresult[b] = "true"
        /\ Len(servers[b]) = 2
        /\ IsPackage(servers[b][1])
        /\ HasEventAt(b, "skip", 1)
        /\ ~Registered(servers[b][1].name)
        /\ HasEventAt(b, "record", 2)
        /\ Registered(servers[b][2].name)

\* C36: when two batches that ran concurrently have both returned true, the
\* persisted registry has the entries recorded by both.
C36_NoLostEntries ==
    (\A b \in active : iresult[b] = "true") =>
        \A b \in active :
            \A i \in 1..Len(servers[b]) :
                HasEventAt(b, "record", i) => Registered(servers[b][i].name)

\* C38: a package descriptor is recorded only after its install command
\* ended with exit code 0; an install that ended in any other way, killed by
\* a signal included, is the last thing the batch does, and the batch throws.
C38_RecordedOnlyAfterExitZero ==
    \A b \in active :
        \A k \in 1..Len(Log(b)) :
            LET e == Log(b)[k] IN
            /\ (e.ev = "install" /\ e.x # "exit0") =>
                  /\ k = Len(Log(b))
                  /\ iresult[b] = "throws"
            /\ (e.ev = "record" /\ IsPackage(servers[b][e.i])) =>
                  /\ k > 1
                  /\ Log(b)[k - 1] = EventX("install", e.i, "exit0")

\* --------------------------------------- claims on the retrieval engine

FLog(r) == flog[r]

HasFEvent(r, e) == \E k \in 1..Len(FLog(r)) : FLog(r)[k].ev = e

\* The body holds the HTML tag or the sign-in phrase the engine looks for.
LooksLikeSignIn(body) ==
    \E i \in 1..Len(body) : body[i] \in {"<html", "Sign in to your account"}

\* The GET of log entry e failed, or answered with a sign-in page.
GetFailed(e) ==
    e.x.outcome.kind # "ok" \/ LooksLikeSignIn(e.x.outcome.body)

\* The clone tier of retrieval r failed: git did, or the copy into storage.
CloneTierFailed(r) ==
    \E k \in 1..Len(FLog(r)) :
        \/ FLog(r)[k].ev = "clone" /\ FLog(r)[k].x # "exit0"
        \/ /\ FLog(r)[k].ev = "store"
           /\ FLog(r)[k].x.source = "clone"
           /\ ~FLog(r)[k].x.ok

\* C6: for a repo address, a tier-1 GET that fails or answers with a body
\* detected as a sign-in page is followed by the clone; such a body is never
\* written to storage, and a retrieval that had it succeeds only through
\* the clone.
C6_HtmlOrFailureFallsThrough ==
    \A r \in factive :
        IsRepo(prompt[r]) =>
            \A k \in 1..Len(FLog(r)) :
                LET e == FLog(r)[k] IN
                /\ (e.ev = "GET" /\ GetFailed(e)) =>
                      /\ tempDir[r] # NoDir
                      /\ IF k = Len(FLog(r))
                         THEN fpc[r] = "clone"
                         ELSE FLog(r)[k + 1].ev = "clone"
                      /\ fresult[r] = "ok" =>
                            \E j \in (k + 1)..Len(FLog(r)) :
                                /\ FLog(r)[j].ev = "store"
                                /\ FLog(r)[j].x.source = "clone"
                                /\ FLog(r)[j].x.ok
                /\ (e.ev = "store" /\ e.x.source = "http") =>
                      /\ ~LooksLikeSignIn(e.x.content)
                      /\ k > 1
                      /\ FLog(r)[k - 1].ev = "GET"
                      /\ ~GetFailed(FLog(r)[k - 1])
                      /\ FLog(r)[k - 1].x.outcome.body = e.x.content

\* C6 (witness): the raw URL of a repo address answered 200 with a sign-in
\* page, the clone was made and its file stored.
C6_Witness ==
    \E r \in factive :
        /\ IsRepo(prompt[r])
        /\ fresult[r] = "ok"
        /\ \E k \in 1..Len(FLog(r)) :
              /\ FLog(r)[k].ev = "GET"
              /\ FLog(r)[k].x.outcome.kind = "ok"
              /\ LooksLikeSignIn(FLog(r)[k].x.outcome.body)
        /\ HasFEvent(r, "clone")
        /\ prompt[r].name \in DOMAIN storage
        /\ storage[prompt[r].name] = <<"text">>

\* C7: when a repo retrieval fails, the error it throws is the clone tier's
\* (never tier 1's), and the clone tier did fail; after a tier-1 failure the
\* retrieval still succeeds when the clone tier does.
C7_CloneErrorSurfaced ==
    \A r \in factive :
        IsRepo(prompt[r]) =>
            /\ ferror[r].tier # 1
            /\ fresult[r] = "throws" =>
                  /\ ferror[r].tier = 2
                  /\ caught[r].tier = 1
                  /\ CloneTierFailed(r)
            /\ (fpc[r] = "done" /\ ~CloneTierFailed(r)) => fresult[r] = "ok"

\* C7 (witness): tier 1 timed out, the clone failed, and the retrieval
\* threw the clone's error.
C7_Witness ==
    \E r \in factive :
        /\ IsRepo(prompt[r])
        /\ fresult[r] = "throws"
        /\ caught[r] = [tier |-> 1, msg |-> "Request timed out"]
        /\ ferror[r] = [tier |-> 2,
                        msg |-> <<"Failed to fetch prompt", "Git command failed">>]

\* The cleanups retrieval r has logged.
Cleanups(r) == { k \in 1..Len(FLog(r)) : FLog(r)[k].ev = "cleanup" }

\* C8 as stated: once a clone-based extraction has returned or thrown, its
\* temporary directory is gone.
C8_TempDirGoneAtExit ==
    \A r \in factive :
        (tempDir[r] # NoDir /\ fpc[r] = "done") =>
            tempDir[r] \notin DOMAIN tmpDirs

\* C8 (amended): every clone-based extraction attempts the removal of its
\* temporary directory exactly once, as its last step before it returns or
\* throws, on every exit path; the directory is gone then unless the removal
\* itself failed, which is ignored.
C8_CleanupAttemptedAtExit ==
    \A r \in factive :
        /\ (tempDir[r] # NoDir /\ fpc[r] = "done") =>
              /\ Cleanups(r) = {Len(FLog(r))}
              /\ tempDir[r] \in DOMAIN tmpDirs =>
                    FLog(r)[Len(FLog(r))].x = "removalFailed"
        /\ fpc[r] # "done" => Cleanups(r) = {}
        /\ tempDir[r] = NoDir => Cleanups(r) = {}

\* C8 (witness): the clone succeeded, the target file was missing in it, and
\* the directory was removed before the error was thrown.
C8_Witness ==
    \E r \in factive :
        /\ fresult[r] = "throws"
        /\ Len(FLog(r)) >= 2
        /\ FLog(r)[Len(FLog(r)) - 1].ev = "store"
        /\ FLog(r)[Len(FLog(r)) - 1].x.content = NoContent
        /\ FLog(r)[Len(FLog(r))] = FEvent("cleanup", "removed")
        /\ tempDir[r] \notin DOMAIN tmpDirs

\* C9: for an ado address every tier-1 GET carries the bearer token the
\* credential broker handed out just before, and no GET is issued when the
\* broker hands out none; for a gh address every GET carries no credentials
\* and the broker is never asked.
C9_AdoAlwaysBearerGhNever ==
    \A r \in factive :
        /\ prompt[r].type = "ado" =>
              \A k \in 1..Len(FLog(r)) :
                  /\ FLog(r)[k].ev = "GET" =>
                        /\ FLog(r)[k].x.headers.Authorization = "Bearer token"
                        /\ k > 1
                        /\ FLog(r)[k - 1].ev = "token"
                        /\ FLog(r)[k - 1].x \in {"silent", "interactive"}
                  /\ (FLog(r)[k].ev = "token"
                        /\ FLog(r)[k].x \in {"refused", "emptyToken"}) =>
                        ~HasFEvent(r, "GET")
        /\ prompt[r].type = "github" =>
              /\ ~HasFEvent(r, "token")
              /\ \A k \in 1..Len(FLog(r)) :
                    FLog(r)[k].ev = "GET" =>
                        FLog(r)[k].x.headers.Authorization = Absent

\* C9 (witness): an ado retrieval got a token after an interactive sign-in
\* and issued its GET with it.
C9_Witness ==
    \E r \in factive :
        /\ prompt[r].type = "ado"
        /\ Len(FLog(r)) >= 2
        /\ FLog(r)[1] = FEvent("token", "interactive")
        /\ FLog(r)[2].ev = "GET"
        /\ FLog(r)[2].x.headers.Authorization = "Bearer token"

\* C10: for a repo address, a clone is started only after a GET without
\* credentials has failed and a GET with credentials has been attempted
\* after it.
C10_AuthenticatedHttpBeforeClone ==
    \A r \in factive :
        IsRepo(prompt[r]) =>
            \A k \in 1..Len(FLog(r)) :
                FLog(r)[k].ev = "clone" =>
                    \E i, j \in 1..(k - 1) :
                        /\ i < j
                        /\ FLog(r)[i].ev = "GET"
                        /\ FLog(r)[i].x.headers.Authorization = Absent
                        /\ FLog(r)[j].ev = "GET"
                        /\ FLog(r)[j].x.headers.Authorization # Absent

\* C11: for a direct-url address exactly one GET is issued, without
\* credentials, the credential broker is never asked and no clone is made;
\* a GET that answers with a success status is followed by the store of its
\* body under <canonicalName>.prompt.md, and after a GET that fails nothing
\* is stored and the retrieval fails.
C11_DirectUrlStoresSuccessBody ==
    \A r \in factive :
        prompt[r].type = "url" =>
            /\ ~HasFEvent(r, "token")
            /\ ~HasFEvent(r, "clone")
            /\ tempDir[r] = NoDir
            /\ Cardinality({ k \in 1..Len(FLog(r)) : FLog(r)[k].ev = "GET" }) <= 1
            /\ fpc[r] = "done" => HasFEvent(r, "GET")
            /\ \A k \in 1..Len(FLog(r)) :
                  FLog(r)[k].ev = "GET" =>
                     /\ FLog(r)[k].x.headers.Authorization = Absent
                     /\ IF FLog(r)[k].x.outcome.kind = "ok"
                        THEN IF k = Len(FLog(r))
                             THEN fpc[r] = "store"
                             ELSE /\ FLog(r)[k + 1].ev = "store"
                                  /\ FLog(r)[k + 1].x.content =
                                        FLog(r)[k].x.outcome.body
                                  /\ FLog(r)[k + 1].x.ok =>
                                        /\ prompt[r].name \in DOMAIN storage
                                        /\ storage[prompt[r].name] =
                                              FLog(r)[k].x.outcome.body
                        ELSE /\ ~HasFEvent(r, "store")
                             /\ fresult[r] = "throws"

\* The retrieval of a local path whose source file does not exist is over.
MissingSourceDone(r) ==
    /\ prompt[r].type = "local"
    /\ localFile = NoContent
    /\ fpc[r] = "done"

\* C12 as stated: the retrieval of a local path whose source file does not
\* exist fails with the source-not-found error of the existence check, and
\* no copy is attempted.
C12_MissingSourceIsSourceNotFound ==
    \A r \in factive :
        MissingSourceDone(r) =>
            /\ fresult[r] = "throws"
            /\ ferror[r].msg = <<"Failed to fetch prompt", "Source file not found">>
            /\ Len(FLog(r)) = 1
            /\ FLog(r)[1].ev = "store"
            /\ ~FLog(r)[1].x.attempted

\* C12 (amended): the retrieval of a local path whose source file does not
\* exist fails, no copy is attempted and the files in storage stay what they
\* were; the error is the source-not-found error of the existence check
\* whenever the storage directory could be set up, and the error of the
\* directory setup, which runs first, otherwise.
C12_MissingSourceFailsBeforeCopy ==
    /\ [](\A r \in factive :
            MissingSourceDone(r) =>
                /\ fresult[r] = "throws"
                /\ Len(FLog(r)) = 1
                /\ FLog(r)[1].ev = "store"
                /\ ~FLog(r)[1].x.attempted
                /\ ~FLog(r)[1].x.ok
                /\ ferror[r].msg =
                      <<"Failed to fetch prompt",
                        IF FLog(r)[1].x.ensured
                        THEN "Source file not found"
                        ELSE "Failed to setup prompts directory">>)
    /\ [][(\E r \in factive : prompt[r].type = "local" /\ localFile = NoContent)
             => storage' = storage]_vars

\* C12 (witness): the source file is missing, the directory was set up, the
\* retrieval threw the source-not-found error and the file of an earlier
\* retrieval under the same name is still in storage.
C12_Witness ==
    \E r \in factive :
        /\ MissingSourceDone(r)
        /\ FLog(r)[1].x.ensured
        /\ ferror[r].msg = <<"Failed to fetch prompt", "Source file not found">>
        /\ prompt[r].name = "p1"
        /\ storage = ("p1" :> OldContent)

\* Retrieval r returns successfully in this step, for an address that is
\* fetched (an installed name is resolved by the host and fetches nothing).
Succeeds(r) ==
    /\ prompt[r].type # "installed"
    /\ fresult[r] # "ok"
    /\ fresult'[r] = "ok"

\* The content of the successful store in the log of retrieval r after this
\* step.
StoredInStep(r) ==
    LET log == flog'[r]
        oks == { k \in 1..Len(log) : log[k].ev = "store" /\ log[k].x.ok }
    IN  log[CHOOSE k \in oks : TRUE].x.content

\* C13: a step in which a retrieval returns successfully leaves storage as
\* it was except for the one file <canonicalName>.prompt.md, which exists
\* afterwards and holds what the retrieval fetched, whether or not a file of
\* that name was there; no other step changes storage.  So every file
\* written by a retrieval holds the content of the most recent successful
\* retrieval under its name, and a retrieval of the same kind of address
\* under the same name that fetches the same content as the one before
\* leaves storage as it is.
C13_OneFileOverwritten ==
    /\ [][\A r \in factive :
            IF Succeeds(r)
            THEN /\ DOMAIN storage' = (DOMAIN storage) \cup {prompt[r].name}
                 /\ storage'[prompt[r].name] = StoredInStep(r)
                 /\ \A n \in DOMAIN storage :
                       n # prompt[r].name => storage'[n] = storage[n]
                 /\ ( /\ prompt[r].name \in DOMAIN last
                      /\ last[prompt[r].name] =
                            [type |-> prompt[r].type, content |-> StoredInStep(r)] )
                    => storage' = storage
            ELSE storage' = storage]_vars
    /\ [](\A n \in DOMAIN last :
            /\ n \in DOMAIN storage
            /\ (\A r \in factive : ~(fresult[r] = "ok" /\ prompt[r].name = n
                                      /\ prompt[r].type # "installed"))
                  => storage[n] = last[n].content)

\* C13 (witness): the second retrieval under the name p1 has just succeeded
\* with another content than the first, which replaced a file of an earlier
\* run; storage holds the second content, and nothing under another name.
C13_Witness ==
    \E r \in factive :
        /\ retrievals = 2
        /\ fresult[r] = "ok"
        /\ prompt[r] = [type |-> "github", name |-> "p1"]
        /\ "p1" \in DOMAIN last
        /\ last["p1"].content = <<"text">>
        /\ HasFEvent(r, "clone")
        /\ storage = ("p1" :> <<"<html", "text">>)

\* C14: over any number of retrievals the notification is shown at most
\* once; the setting changes only by gaining the storage directory, in a
\* step that finds it unregistered, and it is in that step and no other that
\* the notification is shown; every directory registered before stays
\* registered; and no file is written before the directory is registered.
C14_RegisteredAndNotifiedOnce ==
    /\ [](notifications <= 1)
    /\ []("otherDir" \in locations)
    /\ [](notifications = 1 => OurDir \in locations)
    /\ [](\A r \in factive : \A k \in 1..Len(FLog(r)) :
            (FLog(r)[k].ev = "store" /\ FLog(r)[k].x.attempted)
                => OurDir \in locations)
    /\ [][ /\ locations \subseteq locations'
           /\ locations' \subseteq locations \cup {OurDir}
           /\ (locations' # locations) <=> (notifications' # notifications)
           /\ locations' # locations =>
                 /\ OurDir \notin locations
                 /\ notifications' = notifications + 1 ]_vars

\* C14 (witness): the first retrieval registered the directory and showed
\* the notification, and a second retrieval has written a file since, with
\* the other directory still registered.
C14_Witness ==
    \E r \in factive :
        /\ retrievals = 2
        /\ notifications = 1
        /\ locations = {"otherDir", OurDir}
        /\ fresult[r] = "ok"
        /\ prompt[r].type = "url"
        /\ DOMAIN last = {"p2"}
        /\ DOMAIN storage = {"p1", "p2"}

\* Retrieval r is in its clone-based extraction: the directory is named and
\* fetchViaGitToFile has not left yet.
InClone(r) == fpc[r] \in {"clone", "copy"}

\* C33: two clone-based extractions in flight at the same time have
\* different temporary clone directories.
C33_DistinctCloneDirs ==
    \A r1, r2 \in factive :
        (r1 # r2 /\ InClone(r1) /\ InClone(r2)) => tempDir[r1] # tempDir[r2]

\* ------------------------------------ claims on the remote prompt session

HasCEvent(e) == \E k \in 1..Len(clog) : clog[k].ev = e

CEvents(e) == { k \in 1..Len(clog) : clog[k].ev = e }

\* client.connect has resolved: the session is connected.
Connected == \E k \in CEvents("connect") : clog[k].x.ok

\* C15: a session that was connected has close called on it exactly once,
\* after the render request has been answered (with text, without text or
\* with an error) and before getPrompt returns or throws; a call that never
\* connected closes nothing.
C15_ConnectedSessionClosedOnce ==
    /\ Cardinality(CEvents("close")) <= 1
    /\ \A k \in CEvents("close") :
          /\ k = Len(clog)
          /\ k > 1
          /\ clog[k - 1].ev = "render"
          /\ Connected
    /\ (Connected /\ cresult # "pending") =>
          /\ cpc = "done"
          /\ Cardinality(CEvents("close")) = 1
          /\ Cardinality(CEvents("render")) = 1
    /\ (Connected /\ cpc # "done") => cresult = "pending"
    /\ ~Connected => (~HasCEvent("close") /\ ~HasCEvent("render"))

\* C15 (witness): the render request was answered without a message, and
\* getPrompt threw after the session was closed.
C15_Witness ==
    /\ cpc = "done"
    /\ cresult = "throws"
    /\ Len(clog) >= 2
    /\ clog[Len(clog) - 1].ev = "render"
    /\ clog[Len(clog) - 1].x.outcome = "noMessages"
    /\ clog[Len(clog)] = CEvent("close", "closed")

\* C16: whatever close does, getPrompt ends as the render request decided:
\* it returns the rendered text when there was one, and throws the render
\* error when the request failed or brought no text; no close error is ever
\* thrown.
C16_CloseFailureKeepsOutcome ==
    /\ cvalue.kind # "CloseFailed"
    /\ (cpc = "done" /\ HasCEvent("render")) =>
          \A k \in CEvents("render") :
              IF clog[k].x.outcome = "text"
              THEN /\ cresult = "returns"
                   /\ cvalue = [kind |-> "text", msg |-> <<"rendered">>]
              ELSE /\ cresult = "throws"
                   /\ cvalue.kind = "RenderFailed"
                   /\ cvalue.msg[2] =
                         (IF clog[k].x.outcome = "rpcError" THEN "rpc error"
                          ELSE "No text content found in MCP prompt response")

\* C16 (witness): the render request failed, close failed as well, and
\* getPrompt threw the render error.
C16_Witness ==
    /\ cpc = "done"
    /\ Len(clog) >= 2
    /\ clog[Len(clog) - 1].ev = "render"
    /\ clog[Len(clog) - 1].x.outcome = "rpcError"
    /\ clog[Len(clog)] = CEvent("close", "closeThrows")
    /\ cresult = "throws"
    /\ cvalue = [kind |-> "RenderFailed",
                 msg |-> <<"Failed to fetch prompt: ", "rpc error">>]

\* The prompt name has the form mcp.<service>.<prompt>.
WellFormedName ==
    /\ Len(Split(mcpPromptName, ".")) = 3
    /\ Split(mcpPromptName, ".")[1] = <<"m", "c", "p">>

\* The named service is among the descriptors the caller passed.
ServiceListed ==
    /\ WellFormedName
    /\ mcpServers.defined
    /\ \E i \in 1..Len(mcpServers.list) :
          mcpServers.list[i].name = Split(mcpPromptName, ".")[2]

\* The payloads that are the text of a JSON object.
ObjectInputs ==
    { <<"{", "}">>,
      <<"{", "\"a\"", ":", "1", "}">>,
      <<"{", "\"a\"", ":", "[", "1", "]", "}">> }

\* C17: nothing is logged (no discovery, no transport, no connection, no
\* process) unless the service is listed and the payload is empty or the
\* text of a JSON object; a well-formed name of a service that is not listed
\* fails with the service-not-configured error, a listed service with any
\* other payload fails with the invalid-arguments error, an empty payload
\* sends the empty argument object and an object payload sends that object.
C17_NoTransportUnlessServiceAndObject ==
    /\ clog # <<>> => (ServiceListed /\ input \in ObjectInputs \cup {<<>>})
    /\ cpc \notin {"start", "done", "idle"} =>
          (ServiceListed /\ input \in ObjectInputs \cup {<<>>})
    /\ (cpc = "done" /\ WellFormedName /\ ~ServiceListed) =>
          (cresult = "throws" /\ cvalue.kind = "ServiceNotConfigured")
    /\ (cpc = "done" /\ ServiceListed /\ input \notin ObjectInputs \cup {<<>>}) =>
          (cresult = "throws" /\ cvalue.kind = "InvalidArguments")
    /\ \A k \in CEvents("render") :
          clog[k].x.arguments = (IF input = <<>> THEN <<"{", "}">> ELSE input)

\* C17 (witness): the service is listed, the payload is a JSON array, and
\* getPrompt threw the invalid-arguments error without doing anything.
C17_Witness ==
    /\ cpc = "done"
    /\ ServiceListed
    /\ input = <<"[", "{", "}", "]">>
    /\ cvalue.kind = "InvalidArguments"
    /\ clog = <<>>

\* The authorization server the client looks at, the first one listed, is
\* recognized as the identity provider: its URL has the provider's host name
\* in it.
Recognized(outcome) ==
    \E i \in 1..Len(outcome.servers[1]) :
        outcome.servers[1][i] = "login.microsoftonline.com"

\* Discovery answered with at least one authorization server.
Advertises(outcome) ==
    outcome.kind = "metadata" /\ outcome.listed /\ Len(outcome.servers) > 0

\* C18: when the discovery lists authorization servers and the first is not
\* recognized as the identity provider, getPrompt throws the
\* unsupported-provider error at once: no transport is made and no
\* connection attempted.
C18_UnsupportedProviderFails ==
    \A k \in CEvents("discover") :
        (Advertises(clog[k].x) /\ ~Recognized(clog[k].x)) =>
            /\ k = Len(clog)
            /\ cpc = "done"
            /\ cresult = "throws"
            /\ cvalue.kind = "UnsupportedAuthProvider"
            /\ transport = [kind |-> "", auth |-> ""]
            /\ ~HasCEvent("connect")

\* C18 (witness): the endpoint lists another provider before Microsoft, and
\* getPrompt threw the unsupported-provider error.
C18_Witness ==
    /\ cpc = "done"
    /\ Len(clog) = 1
    /\ clog[1].ev = "discover"
    /\ Advertises(clog[1].x)
    /\ clog[1].x.servers[1] = <<"https://", "auth.example.com">>
    /\ cvalue.kind = "UnsupportedAuthProvider"

\* C19: when the first authorization server listed is recognized as the
\* identity provider, every connection is attempted with the bearer token
\* the credential broker handed out, and none is attempted when the broker
\* hands out no token or fails.
C19_RecognizedProviderNeedsToken ==
    \A k \in CEvents("discover") :
        (Advertises(clog[k].x) /\ Recognized(clog[k].x)) =>
            /\ \A j \in CEvents("connect") :
                  /\ clog[j].x.transport.auth = "Bearer token"
                  /\ \E i \in CEvents("getSession") :
                        i < j /\ clog[i].x = "token"
            /\ \A i \in CEvents("getSession") :
                  clog[i].x # "token" => ~HasCEvent("connect")

\* C20: when the discovery lists no authorization server, or throws,
\* whatever the message, the client makes a transport without credentials
\* and connects with it.
C20_DiscoveryFailureMeansPublic ==
    \A k \in CEvents("discover") :
        ~Advertises(clog[k].x) =>
            /\ k < Len(clog)
            /\ clog[k + 1] = CEvent("transport", [kind |-> "http", auth |-> ""])
            /\ cpc # "connect" =>
                  \E j \in CEvents("connect") :
                      j = k + 2 /\ clog[j].x.transport.auth = ""


\* ------------------------------------------------------------ versions

\* The numeric core of a version: what precedes its first '-' or '+'.
CoreEnd(v) ==
    LET marks == { i \in 1..Len(v) : v[i] \in {"-", "+"} }
    IN  IF marks = {} THEN Len(v)
        ELSE (CHOOSE i \in marks : \A j \in marks : i <= j) - 1

\* The numbers of the core's segments.
CoreNumbers(v) ==
    LET segments == Split(SubSeq(v, 1, CoreEnd(v)), ".")
    IN  [i \in 1..Len(segments) |-> DigitsValue(segments[i], 1, 0)]

\* The i-th of the numbers, a missing one counting as zero.
NumberAt(numbers, i) == IF i <= Len(numbers) THEN numbers[i] ELSE 0

\* The positions at which two lists of numbers differ.
Differ(a, b) ==
    { i \in 1..Max(Len(a), Len(b)) : NumberAt(a, i) # NumberAt(b, i) }

First(positions) == CHOOSE i \in positions : \A j \in positions : i <= j

HasSuffix(v) == CoreEnd(v) < Len(v)

\* C21: the numeric segments, stripped of any '-' or '+' suffix and padded
\* with zeros, are compared left to right and the first strict inequality
\* decides, whatever the numbers of segments; two plain versions whose padded
\* segments are all equal (1.2 and 1.2.0) are sufficient for each other.
C21_FirstInequalityDecides ==
    compared =>
        LET a == CoreNumbers(verInstalled)
            b == CoreNumbers(verRequired)
            d == Differ(a, b)
        IN  /\ d # {} =>
                  sufficient = (NumberAt(a, First(d)) > NumberAt(b, First(d)))
            /\ (d = {} /\ ~HasSuffix(verInstalled) /\ ~HasSuffix(verRequired))
                  => sufficient

\* A four-segment version against a shorter one: the leading segment decides
\* (10 above 2) although the fourth, compared with a padded zero, and the
\* second are the other way round.
C21_Witness ==
    /\ compared
    /\ LET a == CoreNumbers(verInstalled)
           b == CoreNumbers(verRequired)
       IN  /\ Len(a) = 3 /\ Len(b) = 4
           /\ Differ(a, b) = {1, 2, 4}
           /\ a[1] = 10 /\ b[1] = 2
           /\ a[2] < b[2] /\ b[4] > 0
    /\ sufficient

\* A version carries a pre-release tag when it has a '-' anywhere behind
\* its numeric core.
HasPrerelease(v) == \E i \in 1..Len(v) : v[i] = "-"

\* C22: with equal numeric cores, a release satisfies a pre-release
\* requirement, a pre-release does not satisfy a release requirement, and two
\* releases or two pre-releases satisfy each other; build metadata after '+'
\* does not make a version a pre-release.
C22_PrereleaseBelowRelease ==
    (compared /\ Differ(CoreNumbers(verInstalled),
                        CoreNumbers(verRequired)) = {}) =>
        sufficient = ~( /\ HasPrerelease(verInstalled)
                        /\ ~HasPrerelease(verRequired) )

\* A pre-release found insufficient for the release of the same core that
\* carries build metadata only.
C22_Witness ==
    /\ compared
    /\ Differ(CoreNumbers(verInstalled), CoreNumbers(verRequired)) = {}
    /\ HasPrerelease(verInstalled)
    /\ ~HasPrerelease(verRequired)
    /\ HasSuffix(verRequired)
    /\ ~sufficient


\* ------------------------------------------------------ address parser

\* parsePrompt has returned or thrown.
Parsed == parseResult # <<>>

BeginsMcp == StartsWith(address, <<"m", "c", "p", ".">>)

BeginsHttp ==
    StartsWith(address, <<"h", "t", "t", "p", ":", "/", "/">>) \/ StartsWith(address, <<"h", "t", "t", "p", "s", ":", "/", "/">>)

\* A drive letter with ':' and a backslash, or a leading '/'.
AbsoluteForm ==
    \/ /\ Len(address) >= 3
       /\ address[1] \in AsciiLetters
       /\ address[2] = ":"
       /\ address[3] = "\\"
    \/ Len(address) >= 1 /\ address[1] = "/"

HasColon == \E i \in 1..Len(address) : address[i] = ":"

\* The address reaches the scheme rule.
SchemeTagged == ~BeginsMcp /\ ~BeginsHttp /\ ~AbsoluteForm /\ HasColon

SchemeOutcome(r) ==
    \/ r.type \in {"ado", "github"}
    \/ /\ r.type = "error"
       /\ r.error \in {"InvalidFormat", "InvalidAdoFormat",
                         "InvalidGitHubFormat", "UnsupportedPlatform"}

\* C23: parsePrompt tests the 'mcp.' prefix, the http(s) URL, the absolute
\* path, the scheme tag before ':' and the installed name in this order and
\* the first match decides: a URL or an absolute path with a ':' in it is
\* never parsed as scheme-tagged, and a string that matches none of the first
\* four is an installed name, the whole string.
C23_FirstMatchDecides ==
    Parsed =>
        LET r == parseResult[1]
        IN  /\ BeginsMcp =>
                  (r.type = "mcp" \/ r.error = "InvalidMcpFormat")
            /\ (~BeginsMcp /\ BeginsHttp) => r.type = "url"
            /\ (~BeginsMcp /\ ~BeginsHttp /\ AbsoluteForm) => r.type = "local"
            /\ SchemeTagged => SchemeOutcome(r)
            /\ (~BeginsMcp /\ ~BeginsHttp /\ ~AbsoluteForm /\ ~HasColon) =>
                  (r.type = "installed" /\ r.name = address)

\* An absolute path with a ':' in its last part, parsed as a local file.
C23_Witness ==
    /\ Parsed
    /\ AbsoluteForm /\ address[1] = "/" /\ HasColon
    /\ parseResult[1].type = "local"

\* The number of '.' in the address.
Dots == Cardinality({ i \in 1..Len(address) : address[i] = "." })

\* C24: an address that begins with 'mcp.' is a remote-service prompt named
\* by the whole string when exactly two dot-separated segments follow the
\* prefix, and a malformed-address error otherwise; it never falls through
\* to a later rule.
C24_McpNeedsTwoSegments ==
    (Parsed /\ BeginsMcp) =>
        LET r == parseResult[1]
        IN  IF Dots = 2
            THEN r.type = "mcp" /\ r.name = address /\ r.error = ""
            ELSE r.type = "error" /\ r.error = "InvalidMcpFormat"

\* A prefixed address with a ':' and three segments behind the prefix,
\* rejected as malformed.
C24_Witness ==
    /\ Parsed /\ BeginsMcp /\ HasColon /\ Dots = 3
    /\ parseResult[1].error = "InvalidMcpFormat"

FirstColon == CHOOSE i \in 1..Len(address) :
                 address[i] = ":" /\ \A k \in 1..(i - 1) : address[k] # ":"

\* The scheme tag, and what follows the first ':'.
Tag == SubSeq(address, 1, FirstColon - 1)

Remainder == SubSeq(address, FirstColon + 1, Len(address))

\* The slash-separated segments of the remainder.
Segments == Split(Remainder, "/")

\* The path behind n leading segments reads as the remainder behind them,
\* with or without the default suffix.
PathBehind(n, path) ==
    LET lead == Join(SubSeq(Segments, 1, n), <<"/">>) \o <<"/">>
    IN  lead \o path \in { Remainder, Remainder \o <<".", "p", "r", "o", "m", "p", "t", ".", "m", "d">> }

\* C25: under the scheme rule, 'ado' with fewer than four slash segments is
\* an ADO format error and 'gh' with fewer than three a GitHub format error;
\* any other tag is an unsupported-platform error that names the tag, however
\* many segments follow; with enough segments the leading ones are
\* org/project/repo or owner/repo and the rest, rejoined with '/', is the
\* path, a further ':' staying inside it.
C25_SchemeRule ==
    (Parsed /\ SchemeTagged) =>
        LET r == parseResult[1]
            n == Len(Segments)
        IN  /\ (Tag = <<"a", "d", "o">> /\ n < 4) => r.error = "InvalidAdoFormat"
            /\ (Tag = <<"g", "h">> /\ n < 3) => r.error = "InvalidGitHubFormat"
            /\ Tag \notin {<<"a", "d", "o">>, <<"g", "h">>} =>
                  (r.error = "UnsupportedPlatform" /\ r.platform = Tag)
            /\ (Tag = <<"a", "d", "o">> /\ n >= 4) =>
                  /\ r.type = "ado"
                  /\ r.org = Segments[1]
                  /\ r.project = Segments[2]
                  /\ r.repo = Segments[3]
                  /\ PathBehind(3, r.filePath)
            /\ (Tag = <<"g", "h">> /\ n >= 3) =>
                  /\ r.type = "github"
                  /\ r.owner = Segments[1]
                  /\ r.repo = Segments[2]
                  /\ PathBehind(2, r.filePath)

\* An 'ado' address whose path has two parts and a ':' in the second.
C25_Witness ==
    /\ Parsed /\ SchemeTagged
    /\ Tag = <<"a", "d", "o">>
    /\ Len(Segments) = 5
    /\ parseResult[1].type = "ado"
    /\ \E i \in 1..Len(parseResult[1].filePath) :
          parseResult[1].filePath[i] = ":"

RecognizedSuffix(path) ==
    \/ EndsWith(path, <<".", "p", "r", "o", "m", "p", "t", ".", "m", "d">>)
    \/ EndsWith(path, <<".", "m", "d">>)
    \/ EndsWith(path, <<".", "t", "x", "t">>)
    \/ EndsWith(path, <<".", "j", "s", "o", "n">>)

\* The last segment of the address, split at '/', '\' and ':'.
LastSegment ==
    LET cuts == { i \in 1..Len(address) : address[i] \in {"/", "\\", ":"} }
    IN  IF cuts = {} THEN address
        ELSE SubSeq(address,
                    (CHOOSE i \in cuts : \A k \in cuts : i >= k) + 1,
                    Len(address))

\* A segment without one layer of extension: without its trailing
\* '.prompt.md', or else without what follows its last '.'.
OneLayerStripped(seg) ==
    IF EndsWith(seg, <<".", "p", "r", "o", "m", "p", "t", ".", "m", "d">>) THEN SubSeq(seg, 1, Len(seg) - 10)
    ELSE LET dots == { i \in 1..Len(seg) : seg[i] = "." }
         IN  IF dots = {} THEN seg
             ELSE SubSeq(seg, 1,
                         (CHOOSE i \in dots : \A k \in dots : i >= k) - 1)

\* C26: for a valid repository address the filePath ends in a recognized
\* suffix, and the name is the last segment of the address as written, before
\* the default suffix is appended, with exactly one layer of extension
\* stripped (both parts of '.prompt.md').
C26_RepoNameAndPath ==
    (Parsed /\ parseResult[1].type \in {"ado", "github"}) =>
        /\ RecognizedSuffix(parseResult[1].filePath)
        /\ parseResult[1].name = OneLayerStripped(LastSegment)

\* C27: getPromptName returns the last segment of the address, split at
\* '/', '\' and ':', without its trailing '.prompt.md' and otherwise
\* unchanged when it ends so, and else without its last single extension, or
\* as it is when it has no '.'.
C27_NameIsStrippedLastSegment ==
    promptName # <<>> => promptName[1] = OneLayerStripped(LastSegment)

\* C28: addDefaultExtension leaves a path that ends in a recognized suffix
\* as it is and appends '.prompt.md' to any other, also behind an
\* unrecognized extension; applied to its own result it changes nothing.
C28_DefaultExtension ==
    /\ Len(withExtension) >= 1 =>
          withExtension[1] = IF RecognizedSuffix(address) THEN address
                             ELSE address \o <<".", "p", "r", "o", "m", "p", "t", ".", "m", "d">>
    /\ Len(withExtension) = 2 => withExtension[2] = withExtension[1]

\* A path with an unrecognized extension, extended once and handed back.
C28_Witness ==
    /\ Len(withExtension) = 2
    /\ EndsWith(address, <<".", "x", "y", "z">>)
    /\ withExtension[1] = address \o <<".", "p", "r", "o", "m", "p", "t", ".", "m", "d">>

\* C29: an absolute Windows path written with forward slashes (C:/...) is
\* parsed as a local file, with the default suffix added.
C29_ForwardSlashDriveIsLocal ==
    ( /\ Parsed
      /\ Len(address) >= 3
      /\ address[1] \in AsciiLetters
      /\ address[2] = ":"
      /\ address[3] = "/" ) =>
        /\ parseResult[1].type = "local"
        /\ RecognizedSuffix(parseResult[1].localPath)


\* ------------------------------------------ remote prompt session: list

\* C39: when listPrompts has returned or thrown after it was connected, the
\* close of its session has completed, and a close that failed was caught
\* and logged.
C39_CloseAwaited ==
    (Connected /\ cresult # "pending") =>
        /\ closing \in CloseOutcomes
        /\ closing = "closeThrows" => HasCEvent("closeError")

\* ------------------------------------------------------ command handler

\* The requests with a malformed address, a malformed service-descriptor
\* payload or an invalid workspace directive.
MalformedRequest ==
    \/ request.prompt \in { <<"m", "c", "p", ".", "a">>, <<"x", "x", ":", "a", "/", "b", "/", "c">> }
    \/ request.mcp \in { <<"1">>, <<"x">>, <<"%", "7">> }
    \/ request.workspace \in { <<"s", "e", "l", "e", "c", "t", ":", "%">>, <<"c", "u", "r", "r", "e", "n", "t">> }

\* The calls that reach the network, start a process or write the registry
\* or the storage.
SideEffectCalls == {"installServers", "getPrompt", "fetchPrompt"}

NoSideEffect == \A i \in 1..Len(elog) : elog[i] \notin SideEffectCalls

ParseFaults == {"parsePrompt", "parseMcpParameter", "parseWorkspaceParameter"}

\* C30: a request with a malformed address, a malformed service-descriptor
\* payload or an invalid workspace directive never gets to a network request,
\* an external process, a registry write or a storage write, and once the
\* parsing error is raised the request is over.
C30_ParseErrorBeforeSideEffects ==
    /\ MalformedRequest => NoSideEffect
    /\ efault \in ParseFaults => (epc = "done" /\ NoSideEffect)

\* A confirmed request with two descriptors and a workspace value that is not
\* a directive: over with one error and no provisioning.
C30_Witness ==
    /\ efault = "parseWorkspaceParameter"
    /\ epc = "done"
    /\ handled.mcpServers = 2
    /\ elog = <<"showPromptConfirmation", "showErrorMessage">>


\* The log has the entry `call`.
Called(call) == \E i \in 1..Len(elog) : elog[i] = call

RetrievalCalls == {"getPrompt", "fetchPrompt"}

DispatchCalls == {"executePrompt", "executeCopilotChatCommand"}

\* C31: once the user has cancelled (declined the confirmation, dismissed
\* the picker or the folder dialog, or declined a service install) the
\* request is over, no error notification is shown, and no retrieval and no
\* dispatch to the chat surface is in the log: the cancellation is its last
\* entry.
C31_CancelIsSilent ==
    Called("cancelled") =>
        /\ epc = "done"
        /\ efault = ""
        /\ ~Called("showErrorMessage")
        /\ elog[Len(elog)] = "cancelled"
        /\ \A i \in 1..Len(elog) :
              elog[i] \notin RetrievalCalls \cup DispatchCalls

\* A confirmed request whose service install was declined: over, with the
\* provisioning call and the cancellation as the last entries.
C31_Witness ==
    /\ epc = "done"
    /\ request.workspace = Select
    /\ elog = <<"showPromptConfirmation", "selectWorkspace", "withProgress",
                "installServers", "cancelled">>


\* How many error notifications the log holds.
Notifications == Cardinality({ i \in 1..Len(elog) : elog[i] = "showErrorMessage" })

\* C32: a request that ended in a fault has shown exactly one error
\* notification, whichever stage failed.
C32_OneNotificationPerFault ==
    (epc = "done" /\ efault # "") => Notifications = 1



\* The calls that provision, reach the network, start a process, write the
\* storage or the registry, open a workspace or dispatch to the chat
\* surface.
GuardedCalls ==
    {"installServers", "getPrompt", "fetchPrompt", "openWorkspaceAndExecute",
     "executePrompt", "executeCopilotChatCommand"}

\* C37: none of the guarded calls is made before the user has answered
\* 'Yes' to the confirmation dialog.
C37_NothingBeforeYes ==
    (\E i \in 1..Len(elog) : elog[i] \in GuardedCalls) =>
        /\ handled.result = "Yes"
        /\ elog[1] = "showPromptConfirmation"

\* An installed prompt was dispatched after the dialog was answered 'Yes'.
C37_Witness ==
    /\ epc = "done"
    /\ handled.result = "Yes"
    /\ elog = <<"showPromptConfirmation", "withProgress", "executePrompt">>


\* -------------------------------------------------------- chat dispatch

\* The commands that were handed the content, in order: the log without
\* the opening of a new chat.
Attempts == IF klog = <<>> THEN <<>> ELSE Tail(klog)

\* The list `seq` without the entries equal to x.
RECURSIVE Without(_, _)
Without(seq, x) ==
    IF seq = <<>> THEN <<>>
    ELSE IF Head(seq) = x THEN Without(Tail(seq), x)
    ELSE <<Head(seq)>> \o Without(Tail(seq), x)

\* The configured command, then the built-in variants other than it.
ExpectedOrder == <<configured>> \o Without(defaultCommandVariants, configured)

\* C40: the content goes to the configured command first and then to each
\* built-in variant other than it, in list order, each at most once; only
\* the last command tried can have succeeded, and the call returns with it;
\* the command in memory and in the settings changes only to a fallback
\* variant that succeeded; the call throws only after every command of the
\* order has failed.
C40_FallbackOrder ==
    LET a == Attempts
        n == Len(a)
    IN  /\ klog # <<>> => klog[1].command = "workbench.action.chat.newChat"
        /\ n <= Len(ExpectedOrder)
        /\ \A k \in 1..n :
              /\ a[k].command = ExpectedOrder[k]
              /\ a[k].content = kcontent
              /\ k < n => ~a[k].ok
        /\ kpc \in {"run", "variant"} => \A k \in 1..n : ~a[k].ok
        /\ chatCommand # configured =>
              /\ n > 1
              /\ a[n].ok
              /\ a[n].command = chatCommand
        /\ chatSetting # configured =>
              /\ chatSetting = chatCommand
              /\ kresult = "returns"
        /\ kresult = "returns" => (n >= 1 /\ a[n].ok)
        /\ kresult = "throws" =>
              /\ n = Len(ExpectedOrder)
              /\ \A k \in 1..n : ~a[k].ok

\* The second variant was configured and failed, the first variant failed,
\* the third succeeded and became the configured command in memory and in
\* the settings.
C40_Witness ==
    /\ kresult = "returns"
    /\ configured = defaultCommandVariants[2]
    /\ Len(Attempts) = 3
    /\ Attempts[2].command = defaultCommandVariants[1]
    /\ Attempts[3].command = defaultCommandVariants[3]
    /\ Attempts[3].ok
    /\ chatCommand = defaultCommandVariants[3]
    /\ chatSetting = defaultCommandVariants[3]

\* ------------------------------------------------------ external processes

\* C34: no external process started by the code is still running after the
\* request timeout has elapsed: at the timeout it is killed and the promise
\* that awaits it is settled.
C34_NoProcessOutlivesTimeout ==
    elapsed > fetchTimeout => (childState # "running" /\ settled # Pending)

====
